---- MODULE Spec2Model ----
(***************************************************************************)
(* State-machine model of the video compositor's pipeline orchestrator     *)
(* (compositor_pipeline/src/pipeline.rs): registration of inputs and       *)
(* outputs, scene installation, start, and the render thread that start    *)
(* spawns.  SceneSpec::validate, Renderer, Queue and Encoder are modelled   *)
(* from the design specification (sections 3, 4.1, 4.2, 4.4 and 5).        *)
(***************************************************************************)
EXTENDS Integers, Sequences, FiniteSets, TLC

\* ------------------------------------------------------------------ bounds

\* width and height of an output resolution range over 1..MaxDim
MaxDim == 2
\* start is called at most MaxStarts times
MaxStarts == 2
\* the queue ticker emits frame-sets with pts 1..MaxPts
MaxPts == 2
\* the same, in the specification that exercises the backlog threshold
MaxBacklogPts == 23
\* a web renderer node has at most MaxSources sources
MaxSources == 2
\* send_sources is called at most MaxBatches times
MaxBatches == 2
\* at most MaxQueries wait_for_next_frame queries are made
MaxQueries == 2
\* at most MaxFrames frames arrive at the queue
MaxFrames == 2
\* integer constants of shader modules have IntBits bits (64 in the source)
IntBits == 3
\* an error's source() chain has at most MaxChain errors
MaxChain == 3
\* WgpuShader::render is given at most MaxRenderSources sources
MaxRenderSources == 17
\* render calls made on a text node
MaxRenders == 3

\* ------------------------------------------------------------------ data

InputIds == {"a", "b"}
OutputIds == {"o1", "o2"}
\* node ids of scenes; "b" is also an input id (InputId.0 and NodeId share a namespace)
NodeIds == {"n", "b"}
PadIds == InputIds \cup NodeIds
None == "None"
\* the ports and addresses requests name
Ports == {"5004", "5006"}
Ips == {"127.0.0.1", "127.0.0.2"}
\* the port and the address of a stream registered with options of its own
PortOf(id) == IF id \in {"a", "o1"} THEN "5004" ELSE "5006"
IpOf(id) == IF id = "o1" THEN "127.0.0.1" ELSE "127.0.0.2"
Dims == 1..MaxDim
Threads == 1..MaxStarts
QueryIds == 1..MaxQueries

Range(s) == {s[i] : i \in DOMAIN s}

\* the ids a node refers to: its input pads and its fallback
RefsOf(node) ==
    Range(node.input_pads) \cup (IF node.fallback_id = None THEN {} ELSE {node.fallback_id})

\* NodeSpec{ node_id, input_pads, fallback_id }: at most one input pad, and
\* not both a pad and a fallback
NodeSpecs ==
    {[node_id |-> n, input_pads |-> <<>>, fallback_id |-> None] : n \in NodeIds}
    \cup {[node_id |-> n, input_pads |-> <<p>>, fallback_id |-> None] :
              n \in NodeIds, p \in PadIds}
    \cup {[node_id |-> n, input_pads |-> <<>>, fallback_id |-> p] :
              n \in NodeIds, p \in PadIds}

\* OutputSpec{ output_id, input_pad }
OutputSpecs == [output_id : OutputIds, input_pad : PadIds]

\* the position of a node specification in the (arbitrary) order nodes are
\* listed in: validation does not depend on the order of the list
NodeRank(x) ==
    (IF x.node_id = "n" THEN 0 ELSE 50)
    + (IF x.input_pads = <<>> THEN 0 ELSE 10)
    + (IF x.fallback_id = None THEN 0 ELSE 20)
    + (CASE RefsOf(x) = {} -> 0 [] RefsOf(x) = {"a"} -> 1 [] RefsOf(x) = {"b"} -> 2
         [] OTHER -> 3)

\* node lists of up to two nodes (equal ones included), each pair in one order
NodeLists ==
    {<<>>} \cup {<<x>> : x \in NodeSpecs}
    \cup {p \in NodeSpecs \X NodeSpecs : NodeRank(p[1]) <= NodeRank(p[2])}

OutputLists == {<<>>} \cup {<<x>> : x \in OutputSpecs}

\* the scene specifications update_scene is called with in Spec
Scenes == [nodes : NodeLists, outputs : OutputLists]

\* the scene a new renderer holds
EmptyScene == [nodes |-> <<>>, outputs |-> <<>>]

\* a scene of one node without inputs, routed to each output of outs
SourceScene(outs) ==
    [nodes |-> <<[node_id |-> "n", input_pads |-> <<>>, fallback_id |-> None]>>,
     outputs |-> [i \in 1..Len(outs) |-> [output_id |-> outs[i], input_pad |-> "n"]]]

\* the scene specifications update_scene is called with in SpecRender
RenderScenes ==
    {EmptyScene, SourceScene(<<"o1">>), SourceScene(<<"o2">>), SourceScene(<<"o1", "o2">>),
     [nodes |-> <<>>, outputs |-> <<[output_id |-> "o1", input_pad |-> "n"]>>]}

\* ------------------------------------------------------ scene validation

NodeIdsOf(s) == {s.nodes[i].node_id : i \in DOMAIN s.nodes}

\* the ids the nodes named in ids refer to
Parents(s, ids) ==
    UNION {RefsOf(s.nodes[i]) : i \in {j \in DOMAIN s.nodes : s.nodes[j].node_id \in ids}}

RECURSIVE ReachFrom(_, _)
ReachFrom(s, ids) ==
    LET next == ids \cup Parents(s, ids)
    IN  IF next = ids THEN ids ELSE ReachFrom(s, next)

HasDuplicateNodes(s) ==
    \E i, j \in DOMAIN s.nodes : i # j /\ s.nodes[i].node_id = s.nodes[j].node_id

HasCycle(s) ==
    \E i \in DOMAIN s.nodes : s.nodes[i].node_id \in ReachFrom(s, RefsOf(s.nodes[i]))

UsedNodes(s) == ReachFrom(s, {s.outputs[i].input_pad : i \in DOMAIN s.outputs})

\* SceneSpec::validate(registered input ids, registered output ids): Ok or the
\* first violation.  Node parameters, and with them the input-count
\* constraint of step 5, are not part of the model.
Validate(s, ins, outs) ==
    IF HasDuplicateNodes(s) THEN "DuplicateNodeNames"
    ELSE IF NodeIdsOf(s) \cap ins # {} THEN "DuplicateNodeAndInputNames"
    ELSE IF \E i \in DOMAIN s.nodes : ~(RefsOf(s.nodes[i]) \subseteq NodeIdsOf(s) \cup ins)
         THEN "UnknownInputPadOnNode"
    ELSE IF \E i \in DOMAIN s.outputs : s.outputs[i].input_pad \notin NodeIdsOf(s)
         THEN "UnknownInputPadOnOutput"
    ELSE IF \E i \in DOMAIN s.outputs : s.outputs[i].output_id \notin outs
         THEN "UnknownOutput"
    ELSE IF HasCycle(s) THEN "CycleDetected"
    ELSE IF ~(NodeIdsOf(s) \subseteq UsedNodes(s)) THEN "UnusedNodes"
    ELSE "Ok"

\* ------------------------------------------------------------------ state

VARIABLES
    inputs,        \* Pipeline.inputs: the registered input ids
    inputPort,     \* Pipeline.inputs: registered input id -> the port of its receiver
    queueInputs,   \* the inputs of Pipeline.queue
    outputs,       \* Pipeline.outputs: registered output id -> its encoder
    scene,         \* the scene specification the renderer holds
    is_started,    \* Pipeline.is_started
    nThreads,      \* render threads spawned by start (thread t has t <= nThreads)
    channel,       \* per render thread, the frame-sets (pts) in its channel
    nextPts,       \* pts of the next frame-set of the queue
    pc,            \* per render thread, its position in the loop body
    cur,           \* per render thread, the pts of the frame-set it holds (0: none)
    pending,       \* per render thread, output ids of rendered frames not yet dispatched
    lastResult,    \* the record of the last call on the pipeline
    ackedScene,    \* the scene of the last update_scene that returned Ok
    renderScene,   \* the scene the last successful render used
    lastEvent,     \* what the render threads did last
    dropped,       \* whether the pipeline, and with it the queue's senders, was dropped
    sendPc,        \* BrowserController: its position in send_sources
    sending,       \* BrowserController: the sources of the send_sources call under way
    batches,       \* the number of send_sources calls made
    message_receiver,  \* ChromiumSenderThread.message_receiver: the messages in the channel
    chPc,          \* the chromium sender thread's position
    shared_memory, \* ThreadState.shared_memory: node id -> the length of its list
    unmap_signals, \* the signals in the unmap channel
    chEvent,       \* what the chromium sender thread did last
    listeners,     \* Queue: input id -> the queries whose listener waits for its next frame
    firing,        \* Queue: the listeners taken for a frame that arrived, not yet called
    deferred,      \* per query, its deferred response: the channel and its two ends
    arrived,       \* the number of frames that arrived at the queue
    queuePanicked, \* whether a listener panicked in the thread that called it
    shader_header, \* WgpuCtx.shader_header: the header module
    shader,        \* the module parsed from the shader source
    created,       \* the result of WgpuShader::new ("None": not called yet)
    paramsResult,  \* the result of the last WgpuShader::validate_params
    paramsTy,      \* the type validate_params checked the parameters against (0: none)
    error,         \* the display strings of e0, its source() e1, ... (<<>>: no error)
    stackCur,      \* ErrorStack.0: the index of the current error (0: None)
    yielded,       \* the errors ErrorStack::next returned, in order
    stopped,       \* whether ErrorStack::next returned None
    stackString,   \* the result of ErrorStack::into_string
    unusedNodes,   \* UnusedNodesError.0: the set of node ids
    unusedOrder,   \* per error value, the order its hash set iterated in
    unusedMessage, \* per error value, the string it formatted to (<<>>: not yet)
    typeCheck,     \* a call of validate_type_equivalent: its arguments and its result
    renderPass,    \* a call of WgpuShader::render: its sources and what it bound
    textNode       \* a TextRendererNode, the targets it is given and the GPU work submitted

chromiumVars ==
    <<sendPc, sending, batches, message_receiver, chPc, shared_memory, unmap_signals, chEvent>>

listenerVars == <<listeners, firing, deferred, arrived, queuePanicked>>

shaderVars == <<shader_header, shader, created, paramsResult, paramsTy>>

stackVars == <<error, stackCur, yielded, stopped, stackString>>

unusedVars == <<unusedNodes, unusedOrder, unusedMessage>>

errorVars == <<stackVars, unusedVars>>

\* the units checked on their own
unitVars == <<typeCheck, renderPass, textNode>>

\* the variables the calls on the pipeline and its render threads leave alone
otherVars == <<dropped, chromiumVars, listenerVars, shaderVars, errorVars, unitVars>>

vars ==
    <<inputs, inputPort, queueInputs, outputs, scene, is_started, nThreads, channel,
      nextPts, pc, cur, pending, lastResult, ackedScene, renderScene, lastEvent, otherVars>>

controlVars ==
    <<inputs, inputPort, queueInputs, outputs, scene, is_started, lastResult, ackedScene>>
threadVars == <<nThreads, channel, nextPts, pc, cur, pending, renderScene, lastEvent>>

\* a web renderer whose browser controller was just created: the sender
\* thread is spawned and nothing was sent to it
ChromiumInit ==
    /\ sendPc = "idle"
    /\ sending = [node_id |-> "w", n |-> 0, tex |-> {}]
    /\ batches = 0
    /\ message_receiver = <<>>
    /\ chPc = "start"
    /\ shared_memory = <<>>
    /\ unmap_signals = 0
    /\ chEvent = "None"

\* a query not made yet: no listener, no channel
NoQuery == [input |-> None, chan |-> <<>>, received |-> 0, frames |-> 0, dropped |-> FALSE]

\* Queue::new: no listeners
ListenerInit ==
    /\ listeners = [i \in InputIds |-> {}]
    /\ firing = {}
    /\ deferred = [q \in QueryIds |-> NoQuery]
    /\ arrived = 0
    /\ queuePanicked = FALSE

\* naga::Module: the type arena, the constant arena, the global variables and
\* the entry points; handles are positions in the arenas
Module(types, constants, globals, entry_points) ==
    [types |-> types, constants |-> constants, global_variables |-> globals,
     entry_points |-> entry_points]

\* no shader under validation
NoShader ==
    /\ shader_header = Module(<<>>, <<>>, <<>>, <<>>)
    /\ shader = Module(<<>>, <<>>, <<>>, <<>>)
    /\ created = "None"
    /\ paramsResult = "None"
    /\ paramsTy = 0

\* the two values that hold the same set of unused nodes
Errors == {1, 2}

\* no error stack
NoErrorStack ==
    /\ error = <<>>
    /\ stackCur = 0
    /\ yielded = <<>>
    /\ stopped = FALSE
    /\ stackString = [set |-> FALSE, s |-> <<>>]

\* no UnusedNodes error
NoUnusedNodes ==
    /\ unusedNodes = {}
    /\ unusedOrder = [e \in Errors |-> <<>>]
    /\ unusedMessage = [e \in Errors |-> <<>>]

\* the render targets a text node is given
Targets == {1, 2}

\* no call of validate_type_equivalent
NoTypeCheck ==
    [mod1 |-> Module(<<>>, <<>>, <<>>, <<>>), mod2 |-> Module(<<>>, <<>>, <<>>, <<>>),
     ty1 |-> 0, ty2 |-> 0, result |-> "None"]

\* no call of WgpuShader::render
NoRenderPass == [sources |-> <<>>, views |-> <<>>, input_count |-> 0, bound |-> FALSE]

\* no text node
NoTextNode ==
    [resolution |-> <<0, 0>>, was_rendered |-> FALSE, poisoned |-> FALSE, calls |-> 0,
     submits |-> 0, target |-> [t \in Targets |-> [size |-> <<0, 0>>, drawn |-> 0]],
     last |-> [target |-> 0, outcome |-> "None"]]

\* none of the units is in use
NoUnits == typeCheck = NoTypeCheck /\ renderPass = NoRenderPass /\ textNode = NoTextNode

\* the renderer side at rest
OtherInit ==
    /\ dropped = FALSE
    /\ ChromiumInit
    /\ ListenerInit

Registered == DOMAIN outputs

\* the record of a call: what it returned (or logged) and, for the claims
\* about it, the case its argument fell in
Result(c, r, a) == [call |-> c, result |-> r, arg |-> a]

\* Pipeline::new
PipelineNew ==
    /\ inputs = {}
    /\ inputPort = <<>>
    /\ queueInputs = {}
    /\ outputs = <<>>
    /\ scene = EmptyScene
    /\ is_started = FALSE
    /\ nThreads = 0
    /\ channel = [t \in Threads |-> <<>>]
    /\ nextPts = 1
    /\ pc = [t \in Threads |-> "recv"]
    /\ cur = [t \in Threads |-> 0]
    /\ pending = [t \in Threads |-> {}]
    /\ lastResult = Result("new", "Ok", "None")
    /\ ackedScene = EmptyScene
    /\ renderScene = EmptyScene
    /\ lastEvent = "None"
    /\ OtherInit

Init == PipelineNew /\ NoShader /\ NoErrorStack /\ NoUnusedNodes /\ NoUnits

\* ------------------------------------------------- registration and scene

\* whether a resolution has an odd side
Parity(w, h) == IF w % 2 = 1 \/ h % 2 = 1 THEN "Odd" ELSE "Even"

\* whether a scene passes validation against the current registrations
Verdict(s) == IF Validate(s, inputs, DOMAIN outputs) = "Ok" THEN "Valid" ELSE "Invalid"

\* the encoder register_output creates for a resolution, with the output
\* (RtpSender) of its receiver options; lastPts is the pts of the last frame
\* handed to it by send_frame (0: none yet)
NewEncoder(w, h, port, ip) ==
    [width |-> w, height |-> h, lastPts |-> 0, port |-> port, ip |-> ip]

RegisterInput_overwrite(i, port) ==
    /\ inputs' = inputs \cup {i}
    /\ inputPort' = [x \in inputs \cup {i} |-> IF x = i THEN port ELSE inputPort[x]]
    /\ queueInputs' = queueInputs \cup {i}
    /\ lastResult' = Result("register_input", "Ok", "None")
    /\ UNCHANGED <<outputs, scene, is_started, ackedScene>>
    /\ UNCHANGED threadVars
    /\ UNCHANGED otherVars

\* register_input(input_id, input_opts), port being the port of input_opts
RegisterInput(i, port) ==
    /\ IF i \in inputs
       THEN /\ lastResult' = Result("register_input", "AlreadyRegistered", "None")
            /\ UNCHANGED <<inputs, inputPort, queueInputs>>
       ELSE /\ inputs' = inputs \cup {i}
            /\ inputPort' = [x \in inputs \cup {i} |-> IF x = i THEN port ELSE inputPort[x]]
            /\ queueInputs' = queueInputs \cup {i}
            /\ lastResult' = Result("register_input", "Ok", "None")
    /\ UNCHANGED <<outputs, scene, is_started, ackedScene>>
    /\ UNCHANGED threadVars
    /\ UNCHANGED otherVars

\* is_still_in_use of unregister_input: some node has the input as an input pad
InputStillInUse(s, i) ==
    \E k \in DOMAIN s.nodes : i \in Range(s.nodes[k].input_pads)

\* unregister_input(input_id)
UnregisterInput(i) ==
    /\ IF i \notin inputs
       THEN /\ lastResult' = Result("unregister_input", "NotFound", "None")
            /\ UNCHANGED <<inputs, inputPort, queueInputs>>
       ELSE IF InputStillInUse(scene, i)
       THEN /\ lastResult' = Result("unregister_input", "StillInUse", "None")
            /\ UNCHANGED <<inputs, inputPort, queueInputs>>
       ELSE /\ inputs' = inputs \ {i}
            /\ inputPort' = [x \in inputs \ {i} |-> inputPort[x]]
            /\ queueInputs' = queueInputs \ {i}
            /\ lastResult' = Result("unregister_input", "Ok", "None")
    /\ UNCHANGED <<outputs, scene, is_started, ackedScene>>
    /\ UNCHANGED threadVars
    /\ UNCHANGED otherVars

UnsupportedResolution_heightOnly(w, h) == h % 2 # 0

\* the resolution test of register_output
UnsupportedResolution(w, h) == h % 2 # 0 \/ w % 2 # 0

\* register_output(output_id, output_opts): the resolution and the receiver
\* options (port, ip) of output_opts; encOk: whether Encoder::new succeeds
RegisterOutput(o, w, h, port, ip, encOk) ==
    /\ IF o \in Registered
       THEN /\ lastResult' = Result("register_output", "AlreadyRegistered", Parity(w, h))
            /\ UNCHANGED outputs
       ELSE IF UnsupportedResolution(w, h)
       THEN /\ lastResult' = Result("register_output", "UnsupportedResolution", Parity(w, h))
            /\ UNCHANGED outputs
       ELSE IF ~encOk
       THEN /\ lastResult' = Result("register_output", "EncoderError", Parity(w, h))
            /\ UNCHANGED outputs
       ELSE /\ outputs' = [x \in Registered \cup {o} |->
                              IF x = o THEN NewEncoder(w, h, port, ip) ELSE outputs[x]]
            /\ lastResult' = Result("register_output", "Ok", Parity(w, h))
    /\ UNCHANGED <<inputs, inputPort, queueInputs, scene, is_started, ackedScene>>
    /\ UNCHANGED threadVars
    /\ UNCHANGED otherVars

OutputStillInUse_never(s, o) == FALSE

\* is_still_in_use of unregister_output: some OutputSpec names the output
OutputStillInUse(s, o) ==
    \E k \in DOMAIN s.outputs : s.outputs[k].output_id = o

\* unregister_output(output_id)
UnregisterOutput(o) ==
    /\ IF o \notin Registered
       THEN /\ lastResult' = Result("unregister_output", "NotFound", "None")
            /\ UNCHANGED outputs
       ELSE IF OutputStillInUse(scene, o)
       THEN /\ lastResult' = Result("unregister_output", "StillInUse", "None")
            /\ UNCHANGED outputs
       ELSE /\ outputs' = [x \in Registered \ {o} |-> outputs[x]]
            /\ lastResult' = Result("unregister_output", "Ok", "None")
    /\ UNCHANGED <<inputs, inputPort, queueInputs, scene, is_started, ackedScene>>
    /\ UNCHANGED threadVars
    /\ UNCHANGED otherVars

SceneValidation_skipped(s) == "Ok"

\* the validation update_scene runs: against the keys of the input map and
\* of the output registry
SceneValidation(s) == Validate(s, inputs, Registered)

\* Renderer::update_scene: the renderer's scene is replaced under its lock,
\* or, when the renderer rejects the scene (ok = FALSE), left as it is
RendererUpdateScene(s, ok) ==
    IF ok
    THEN /\ scene' = s
         /\ ackedScene' = s
         /\ lastResult' = Result("update_scene", "Ok", Verdict(s))
    ELSE /\ lastResult' = Result("update_scene", "RendererError", Verdict(s))
         /\ UNCHANGED <<scene, ackedScene>>

UpdateScene_notInstalled(s, ok) ==
    /\ IF SceneValidation(s) # "Ok"
       THEN /\ lastResult' = Result("update_scene", "InvalidSpec", Verdict(s))
            /\ UNCHANGED <<scene, ackedScene>>
       ELSE IF ok
       THEN /\ ackedScene' = s
            /\ lastResult' = Result("update_scene", "Ok", Verdict(s))
            /\ UNCHANGED scene
       ELSE /\ lastResult' = Result("update_scene", "RendererError", Verdict(s))
            /\ UNCHANGED <<scene, ackedScene>>
    /\ UNCHANGED <<inputs, inputPort, queueInputs, outputs, is_started>>
    /\ UNCHANGED threadVars
    /\ UNCHANGED otherVars

\* whether the renderer accepts the scene matters only once it is asked
RendererOutcomes(s) == IF SceneValidation(s) = "Ok" THEN BOOLEAN ELSE {TRUE}

\* update_scene(scene_spec)
UpdateScene(s, ok) ==
    /\ IF SceneValidation(s) # "Ok"
       THEN /\ lastResult' = Result("update_scene", "InvalidSpec", Verdict(s))
            /\ UNCHANGED <<scene, ackedScene>>
       ELSE RendererUpdateScene(s, ok)
    /\ UNCHANGED <<inputs, inputPort, queueInputs, outputs, is_started>>
    /\ UNCHANGED threadVars
    /\ UNCHANGED otherVars

\* start(): is_started is tested and never assigned; the call creates a
\* channel, starts the queue on its sender and spawns a render thread
Start ==
    /\ nThreads < MaxStarts
    /\ IF is_started
       THEN /\ lastResult' = Result("start", "AlreadyStarted", "None")
            /\ UNCHANGED nThreads
       ELSE /\ nThreads' = nThreads + 1
            /\ lastResult' = Result("start", "Started", "None")
    /\ UNCHANGED <<inputs, inputPort, queueInputs, outputs, scene, is_started, ackedScene>>
    /\ UNCHANGED <<channel, nextPts, pc, cur, pending, renderScene, lastEvent>>
    /\ UNCHANGED otherVars

\* ------------------------------------------------------------ API requests

PortInUse_never(port) == FALSE

\* the test of Api::register_input: some registered input has the port
PortInUse(port) == \E x \in inputs : inputPort[x] = port

\* the test of Api::register_output: some registered output has the port and ip
PortAndIpInUse(port, ip) ==
    \E x \in Registered : outputs[x].port = port /\ outputs[x].ip = ip

\* a request the API rejects with a 400 error before it calls the pipeline
Rejected(c, code) ==
    /\ lastResult' = Result(c, code, "None")
    /\ UNCHANGED <<inputs, inputPort, queueInputs, outputs, scene, is_started, ackedScene>>
    /\ UNCHANGED threadVars
    /\ UNCHANGED otherVars

\* Api::register_input(RegisterInputRequest{ input_id, port })
ApiRegisterInput(i, port) ==
    IF PortInUse(port)
    THEN Rejected("register_input", "PORT_ALREADY_IN_USE")
    ELSE RegisterInput(i, port)

\* Api::register_output(RegisterOutputRequest{ output_id, port, resolution, ip, .. })
ApiRegisterOutput(o, w, h, port, ip, encOk) ==
    IF PortAndIpInUse(port, ip)
    THEN Rejected("register_output", "PORT_AND_IP_ALREADY_IN_USE")
    ELSE RegisterOutput(o, w, h, port, ip, encOk)

\* ------------------------------------------------------- frame listeners

\* the capacity of the channel of a deferred response: bounded(1)
ListenerChannelCapacity == 1

ListenerCallback_twice(chan) == Append(Append(chan, "Ok"), "Ok")

\* the listener of a wait_for_next_frame query: sender.send(Ok(Response::Ok {}))
ListenerCallback(chan) == Append(chan, "Ok")

\* handle_query(WaitForNextFrame{ input_id }) as the q-th query: a channel is
\* created, a listener holding its sender is subscribed for the input, and
\* the receiver is returned as the deferred response
WaitForNextFrame(q, i) ==
    /\ deferred[q].input = None
    /\ \A x \in QueryIds : x < q => deferred[x].input # None
    /\ listeners' = [listeners EXCEPT ![i] = @ \cup {q}]
    /\ deferred' = [deferred EXCEPT ![q].input = i]
    /\ UNCHANGED <<firing, arrived, queuePanicked>>
    /\ UNCHANGED <<controlVars, threadVars, dropped, chromiumVars, shaderVars, errorVars, unitVars>>

\* a frame for input i arrives at the queue: the listeners subscribed for the
\* input are taken, to be called once each
FrameArrives(i) ==
    /\ i \in queueInputs
    /\ arrived < MaxFrames
    /\ ~queuePanicked
    /\ firing = {}
    /\ arrived' = arrived + 1
    /\ firing' = listeners[i]
    /\ listeners' = [listeners EXCEPT ![i] = {}]
    /\ deferred' = [q \in QueryIds |->
                       IF deferred[q].input = i
                       THEN [deferred[q] EXCEPT !.frames = @ + 1]
                       ELSE deferred[q]]
    /\ UNCHANGED queuePanicked
    /\ UNCHANGED <<controlVars, threadVars, dropped, chromiumVars, shaderVars, errorVars, unitVars>>

\* the queue calls the listener of query q: the send succeeds, or returns an
\* error the unwrap turns into a panic when the receiver is gone
CallListener(q) ==
    /\ q \in firing
    /\ ~queuePanicked
    /\ IF deferred[q].dropped
       THEN /\ queuePanicked' = TRUE
            /\ UNCHANGED <<firing, deferred>>
       ELSE /\ Len(deferred[q].chan) < ListenerChannelCapacity
            /\ deferred' = [deferred EXCEPT ![q].chan = ListenerCallback(@)]
            /\ firing' = firing \ {q}
            /\ UNCHANGED queuePanicked
    /\ UNCHANGED <<listeners, arrived>>
    /\ UNCHANGED <<controlVars, threadVars, dropped, chromiumVars, shaderVars, errorVars, unitVars>>

\* the requester takes a message from its deferred response
RequesterReceives(q) ==
    /\ ~deferred[q].dropped
    /\ deferred[q].chan # <<>>
    /\ deferred' = [deferred EXCEPT ![q].chan = Tail(@), ![q].received = @ + 1]
    /\ UNCHANGED <<listeners, firing, arrived, queuePanicked>>
    /\ UNCHANGED <<controlVars, threadVars, dropped, chromiumVars, shaderVars, errorVars, unitVars>>

\* the requester stops waiting and drops the receiver
RequesterGivesUp(q) ==
    /\ deferred[q].input # None
    /\ ~deferred[q].dropped
    /\ deferred[q].received = 0
    /\ deferred' = [deferred EXCEPT ![q].dropped = TRUE]
    /\ UNCHANGED <<listeners, firing, arrived, queuePanicked>>
    /\ UNCHANGED <<controlVars, threadVars, dropped, chromiumVars, shaderVars, errorVars, unitVars>>

\* ------------------------------------------------ queue and render thread

\* the threshold of the render thread's backlog test
RenderQueueLimit == 20

SendWouldBlock_bounded(ch) == Len(ch) >= 1

\* the channel start creates is unbounded(): a send on it never waits
SendWouldBlock(ch) == FALSE

\* the queue emits its next frame-set on the sender start handed it for the
\* channel of thread t; the pts of successive frame-sets increase
QueueSend(t, maxPts) ==
    /\ t <= nThreads
    /\ nextPts <= maxPts
    /\ ~dropped
    /\ ~SendWouldBlock(channel[t])
    /\ channel' = [channel EXCEPT ![t] = Append(@, nextPts)]
    /\ nextPts' = nextPts + 1
    /\ UNCHANGED controlVars
    /\ UNCHANGED <<nThreads, pc, cur, pending, renderScene, lastEvent>>
    /\ UNCHANGED otherVars

\* frames_receiver.iter(): the render thread takes the oldest frame-set
Recv(t) ==
    /\ t <= nThreads
    /\ pc[t] = "recv"
    /\ channel[t] # <<>>
    /\ cur' = [cur EXCEPT ![t] = Head(channel[t])]
    /\ channel' = [channel EXCEPT ![t] = Tail(@)]
    /\ pc' = [pc EXCEPT ![t] = "check"]
    /\ UNCHANGED controlVars
    /\ UNCHANGED <<nThreads, nextPts, pending, renderScene, lastEvent>>
    /\ UNCHANGED otherVars

BacklogTooLong_atLeast(ch) == Len(ch) >= RenderQueueLimit

\* frames_receiver.len() > 20, evaluated after the frame-set was taken
BacklogTooLong(ch) == Len(ch) > RenderQueueLimit

\* the backlog test: the frame-set just taken is dropped, or goes on to render
CheckBacklog(t) ==
    /\ t <= nThreads
    /\ pc[t] = "check"
    /\ IF BacklogTooLong(channel[t])
       THEN /\ pc' = [pc EXCEPT ![t] = "recv"]
            /\ cur' = [cur EXCEPT ![t] = 0]
            /\ lastEvent' = "Dropped"
       ELSE /\ pc' = [pc EXCEPT ![t] = "render"]
            /\ UNCHANGED <<cur, lastEvent>>
    /\ UNCHANGED controlVars
    /\ UNCHANGED <<nThreads, channel, nextPts, pending, renderScene>>
    /\ UNCHANGED otherVars

\* the output ids of the frames a render of scene s produces: one per OutputSpec
OutputFrames(s) == {s.outputs[k].output_id : k \in DOMAIN s.outputs}

AfterRenderError_exit == "exited"

\* where the loop goes after a render error: continue
AfterRenderError == "recv"

\* renderer.render(input_frames) under the renderer's lock, with the scene
\* installed at that moment; ok: whether the render succeeds
Render(t, ok) ==
    /\ t <= nThreads
    /\ pc[t] = "render"
    /\ IF ok
       THEN /\ pending' = [pending EXCEPT ![t] = OutputFrames(scene)]
            /\ renderScene' = scene
            /\ lastEvent' = "Rendered"
            /\ IF OutputFrames(scene) = {}
               THEN /\ pc' = [pc EXCEPT ![t] = "recv"]
                    /\ cur' = [cur EXCEPT ![t] = 0]
               ELSE /\ pc' = [pc EXCEPT ![t] = "dispatch"]
                    /\ UNCHANGED cur
       ELSE /\ pc' = [pc EXCEPT ![t] = AfterRenderError]
            /\ cur' = [cur EXCEPT ![t] = 0]
            /\ lastEvent' = "RenderError"
            /\ UNCHANGED <<pending, renderScene>>
    /\ UNCHANGED controlVars
    /\ UNCHANGED <<nThreads, channel, nextPts>>
    /\ UNCHANGED otherVars

SendFrame_none(o, p) == outputs

\* Encoder::send_frame: the encoder of output o is handed the frame of pts p
SendFrame(o, p) == [outputs EXCEPT ![o].lastPts = p]

\* one iteration of the loop over output_frames.frames: the frame of output o
\* is sent to the encoder registered for o, or skipped when there is none
Dispatch(t, o) ==
    /\ t <= nThreads
    /\ pc[t] = "dispatch"
    /\ o \in pending[t]
    /\ IF o \in Registered
       THEN /\ outputs' = SendFrame(o, cur[t])
            /\ lastEvent' = "Sent"
       ELSE /\ lastEvent' = "NoOutput"
            /\ UNCHANGED outputs
    /\ pending' = [pending EXCEPT ![t] = @ \ {o}]
    /\ IF pending[t] = {o}
       THEN /\ pc' = [pc EXCEPT ![t] = "recv"]
            /\ cur' = [cur EXCEPT ![t] = 0]
       ELSE UNCHANGED <<pc, cur>>
    /\ UNCHANGED <<inputs, inputPort, queueInputs, scene, is_started, lastResult, ackedScene>>
    /\ UNCHANGED <<nThreads, channel, nextPts, renderScene>>
    /\ UNCHANGED otherVars

\* a step of render thread t
RenderThread(t) ==
    \/ Recv(t)
    \/ CheckBacklog(t)
    \/ \E ok \in BOOLEAN : Render(t, ok)
    \/ \E o \in OutputIds : Dispatch(t, o)

\* --------------------------------------------------------------- shutdown

\* the pipeline is dropped: the senders of the render channels go with it
DropPipeline ==
    /\ ~dropped
    /\ dropped' = TRUE
    /\ UNCHANGED <<controlVars, threadVars, chromiumVars, listenerVars, shaderVars, errorVars, unitVars>>

\* frames_receiver.iter() ends: the channel is empty and its senders are gone
IterEnds(t) ==
    /\ t <= nThreads
    /\ pc[t] = "recv"
    /\ channel[t] = <<>>
    /\ dropped
    /\ pc' = [pc EXCEPT ![t] = "exited"]
    /\ UNCHANGED controlVars
    /\ UNCHANGED <<nThreads, channel, nextPts, cur, pending, renderScene, lastEvent>>
    /\ UNCHANGED otherVars

\* ------------------------------------------------- chromium sender thread

WebNodeIds == {"w"}

Max(a, b) == IF a >= b THEN a ELSE b
Min(S) == CHOOSE x \in S : \A y \in S : x <= y

\* ChromiumSenderMessage; arg is the number of sources (resolutions.len())
\* or, for UpdateSharedMemory, the source index
Message(k, node, a) == [kind |-> k, node_id |-> node, arg |-> a]

\* whether the sender thread still holds its receiver
ReceiverAlive == chPc \in {"start", "recv"}

\* send_sources(node_id, sources) up to ensure_shared_memory: n sources, those
\* of tex with a texture state
SendSources(node, n, tex) ==
    /\ sendPc = "idle"
    /\ batches < MaxBatches
    /\ ReceiverAlive
    /\ message_receiver' = Append(message_receiver, Message("EnsureSharedMemory", node, n))
    /\ sending' = [node_id |-> node, n |-> n, tex |-> tex]
    /\ batches' = batches + 1
    /\ sendPc' = IF tex = {} THEN "embed" ELSE "update"
    /\ UNCHANGED <<chPc, shared_memory, unmap_signals, chEvent>>
    /\ UNCHANGED <<controlVars, threadVars, dropped, listenerVars, shaderVars, errorVars, unitVars>>

\* a pending download fails (pending()? returns): send_sources returns the
\* error without sending anything more
DownloadFails ==
    /\ sendPc = "update"
    /\ sendPc' = "idle"
    /\ UNCHANGED <<sending, batches, message_receiver, chPc, shared_memory, unmap_signals,
                   chEvent>>
    /\ UNCHANGED <<controlVars, threadVars, dropped, listenerVars, shaderVars, errorVars, unitVars>>

\* copy_buffer_to_shmem of the next source with a texture: the update is
\* sent and the controller waits for the unmap signal
CopyBufferToShmem ==
    /\ sendPc = "update"
    /\ ReceiverAlive
    /\ message_receiver' =
           Append(message_receiver,
                  Message("UpdateSharedMemory", sending.node_id, Min(sending.tex)))
    /\ sendPc' = "wait"
    /\ UNCHANGED <<sending, batches, chPc, shared_memory, unmap_signals, chEvent>>
    /\ UNCHANGED <<controlVars, threadVars, dropped, listenerVars, shaderVars, errorVars, unitVars>>

\* the unmap signal arrives: the buffer is unmapped, on to the next source
Unmap ==
    /\ sendPc = "wait"
    /\ unmap_signals > 0
    /\ unmap_signals' = unmap_signals - 1
    /\ sending' = [sending EXCEPT !.tex = @ \ {Min(sending.tex)}]
    /\ sendPc' = IF sending.tex = {Min(sending.tex)} THEN "embed" ELSE "update"
    /\ UNCHANGED <<batches, message_receiver, chPc, shared_memory, chEvent>>
    /\ UNCHANGED <<controlVars, threadVars, dropped, listenerVars, shaderVars, errorVars, unitVars>>

\* embed_sources, the last step of send_sources
EmbedSources ==
    /\ sendPc = "embed"
    /\ ReceiverAlive
    /\ message_receiver' =
           Append(message_receiver, Message("EmbedSources", sending.node_id, sending.n))
    /\ sendPc' = "idle"
    /\ UNCHANGED <<sending, batches, chPc, shared_memory, unmap_signals, chEvent>>
    /\ UNCHANGED <<controlVars, threadVars, dropped, listenerVars, shaderVars, errorVars, unitVars>>

\* the browser controller is dropped: the sender of the message channel and
\* the receiver of the unmap channel go with it
DropController ==
    /\ sendPc = "idle"
    /\ sendPc' = "dropped"
    /\ UNCHANGED <<sending, batches, message_receiver, chPc, shared_memory, unmap_signals,
                   chEvent>>
    /\ UNCHANGED <<controlVars, threadVars, dropped, listenerVars, shaderVars, errorVars, unitVars>>

BrowserController ==
    \/ \E n \in 0..MaxSources : \E tex \in SUBSET (0..(n - 1)) : SendSources("w", n, tex)
    \/ DownloadFails
    \/ CopyBufferToShmem
    \/ Unmap
    \/ EmbedSources
    \/ DropController

\* run() up to the loop: start_browser succeeds, or the thread returns
StartBrowser(ok) ==
    /\ chPc = "start"
    /\ chPc' = IF ok THEN "recv" ELSE "exited"
    /\ chEvent' = IF ok THEN "BrowserStarted" ELSE "BrowserNotStarted"
    /\ UNCHANGED <<sendPc, sending, batches, message_receiver, shared_memory, unmap_signals>>
    /\ UNCHANGED <<controlVars, threadVars, dropped, listenerVars, shaderVars, errorVars, unitVars>>

\* where recv().unwrap() leaves the thread when the channel is empty and
\* disconnected: recv returns Err and unwrap panics
RecvDisconnected == "panicked"

\* the loop's recv() on an empty channel whose sender was dropped
RecvClosed ==
    /\ chPc = "recv"
    /\ message_receiver = <<>>
    /\ sendPc = "dropped"
    /\ chPc' = RecvDisconnected
    /\ chEvent' = "Disconnected"
    /\ UNCHANGED <<sendPc, sending, batches, message_receiver, shared_memory, unmap_signals>>
    /\ UNCHANGED <<controlVars, threadVars, dropped, listenerVars, shaderVars, errorVars, unitVars>>

\* the length of the node's shared-memory list in the thread's state
SharedMemoryLen(node) == IF node \in DOMAIN shared_memory THEN shared_memory[node] ELSE 0

\* the loop took a message of kind k
Received(k) ==
    /\ chPc = "recv"
    /\ message_receiver # <<>>
    /\ Head(message_receiver).kind = k
    /\ message_receiver' = Tail(message_receiver)

\* handle_ensure_shared_memory; f is where it fails: -1 at main_frame(), i < n
\* at source i (ensure_size or SharedMemory::new), n not at all
HandleEnsureSharedMemory(f) ==
    /\ Received("EnsureSharedMemory")
    /\ LET m == Head(message_receiver)
       IN  /\ f <= m.arg
           /\ shared_memory' =
                  [x \in DOMAIN shared_memory \cup {m.node_id} |->
                      IF x = m.node_id THEN Max(SharedMemoryLen(x), f) ELSE shared_memory[x]]
           /\ chEvent' = IF f = m.arg THEN "Handled" ELSE "HandlerError"
    /\ UNCHANGED <<sendPc, sending, batches, chPc, unmap_signals>>
    /\ UNCHANGED <<controlVars, threadVars, dropped, listenerVars, shaderVars, errorVars, unitVars>>

\* handle_shmem_update; writeOk: whether every write to shared memory succeeds
HandleShmemUpdate(writeOk) ==
    /\ Received("UpdateSharedMemory")
    /\ LET m == Head(message_receiver)
       IN  IF m.node_id \notin DOMAIN shared_memory
           THEN /\ chEvent' = "HandlerError"
                /\ UNCHANGED <<chPc, unmap_signals>>
           ELSE IF m.arg >= shared_memory[m.node_id]
           THEN /\ chPc' = "panicked"
                /\ chEvent' = "IndexOutOfBounds"
                /\ UNCHANGED unmap_signals
           ELSE IF ~writeOk
           THEN /\ chEvent' = "HandlerError"
                /\ UNCHANGED <<chPc, unmap_signals>>
           ELSE IF sendPc = "dropped"
           THEN /\ chPc' = "panicked"
                /\ chEvent' = "UnmapSendError"
                /\ UNCHANGED unmap_signals
           ELSE /\ unmap_signals' = unmap_signals + 1
                /\ chEvent' = "Handled"
                /\ UNCHANGED chPc
    /\ UNCHANGED <<sendPc, sending, batches, shared_memory>>
    /\ UNCHANGED <<controlVars, threadVars, dropped, listenerVars, shaderVars, errorVars, unitVars>>

\* handle_embed_frames; sendOk: whether main_frame() and send_process_message succeed
HandleEmbedFrames(sendOk) ==
    /\ Received("EmbedSources")
    /\ LET m == Head(message_receiver)
       IN  IF m.node_id \notin DOMAIN shared_memory
           THEN /\ chEvent' = "HandlerError"
                /\ UNCHANGED chPc
           ELSE IF m.arg > shared_memory[m.node_id]
           THEN /\ chPc' = "panicked"
                /\ chEvent' = "IndexOutOfBounds"
           ELSE /\ chEvent' = IF sendOk THEN "Handled" ELSE "HandlerError"
                /\ UNCHANGED chPc
    /\ UNCHANGED <<sendPc, sending, batches, shared_memory, unmap_signals>>
    /\ UNCHANGED <<controlVars, threadVars, dropped, listenerVars, shaderVars, errorVars, unitVars>>

\* a step of the chromium sender thread
ChromiumSenderThread ==
    \/ \E ok \in BOOLEAN : StartBrowser(ok)
    \/ RecvClosed
    \/ \E f \in (-1)..MaxSources : HandleEnsureSharedMemory(f)
    \/ \E writeOk \in BOOLEAN : HandleShmemUpdate(writeOk)
    \/ \E sendOk \in BOOLEAN : HandleEmbedFrames(sendOk)

\* ------------------------------------------------------ shader validation

VERTEX_ENTRYPOINT_NAME == "vs_main"
USER_DEFINED_BUFFER_GROUP == 1
USER_DEFINED_BUFFER_BINDING == 0

\* Option<ResourceBinding> of a global variable
NoBinding == <<>>
ResourceBinding(group, binding) == <<group, binding>>

\* Option<Binding> of a struct member
Location(n) == <<"Location", n>>

\* naga::Type{ name, inner }
ScalarType(kind) == [name |-> None, inner |-> [kind |-> "Scalar", scalar |-> kind]]
StructType(name, members, span) ==
    [name |-> name, inner |-> [kind |-> "Struct", members |-> members, span |-> span]]
ArrayType(base, size, stride) ==
    [name |-> None, inner |-> [kind |-> "Array", base |-> base, size |-> size, stride |-> stride]]
BindingArrayType(base, size) ==
    [name |-> None, inner |-> [kind |-> "BindingArray", base |-> base, size |-> size]]
StructMember(name, ty, binding, offset) ==
    [name |-> name, ty |-> ty, binding |-> binding, offset |-> offset]

\* naga::ArraySize
Dynamic == [kind |-> "Dynamic", constant |-> 0]
ConstantSize(c) == [kind |-> "Constant", constant |-> c]

\* naga::ConstantInner: a scalar of kind Sint, Uint, Float or Bool, or a composite
ScalarConstant(kind, v) == [kind |-> "Scalar", value |-> [kind |-> kind, v |-> v]]
CompositeConstant == [kind |-> "Composite", value |-> [kind |-> "None", v |-> 0]]

GlobalVariable(space, binding, ty) == [space |-> space, binding |-> binding, ty |-> ty]
EntryPoint(name, stage, arguments) == [name |-> name, stage |-> stage, arguments |-> arguments]

\* Iterator::find: the position of the first element that satisfies P (0: none)
Find(seq, P(_)) ==
    LET found == {i \in DOMAIN seq : P(seq[i])}
    IN  IF found = {} THEN 0 ELSE Min(found)

\* `a as u64` of a signed a: the value modulo 2^IntBits
AsUnsigned(a) == a % (2 ^ IntBits)

\* validate_constant_value_equivalent(c1, mod1, c2, mod2)
validate_constant_value_equivalent(c1, mod1, c2, mod2) ==
    LET ci1 == mod1.constants[c1]
        ci2 == mod2.constants[c2]
        v1 == ci1.value
        v2 == ci2.value
    IN  IF ci2.kind = "Composite" THEN "CompositeTypeAsArrayLen"
        ELSE IF ci1.kind = "Composite" THEN "CompositeTypeAsArrayLen"
        ELSE IF v1.kind = "Sint" /\ v2.kind = "Sint"
             THEN (IF v1.v = v2.v THEN "Ok" ELSE "ArraySizeMismatch")
        ELSE IF v1.kind = "Uint" /\ v2.kind = "Uint"
             THEN (IF v1.v = v2.v THEN "Ok" ELSE "ArraySizeMismatch")
        ELSE IF v1.kind = "Sint" /\ v2.kind = "Uint"
             THEN (IF AsUnsigned(v1.v) = v2.v THEN "Ok" ELSE "ArraySizeMismatch")
        ELSE IF v1.kind = "Uint" /\ v2.kind = "Sint"
             THEN (IF AsUnsigned(v2.v) = v1.v THEN "Ok" ELSE "ArraySizeMismatch")
        ELSE "ArraySizeMismatch"

\* validate_array_size_equivalent(size1, mod1, size2, mod2)
validate_array_size_equivalent(size1, mod1, size2, mod2) ==
    IF size1.kind # size2.kind THEN "ArraySizeMismatch"
    ELSE IF size1.kind = "Constant"
    THEN validate_constant_value_equivalent(size1.constant, mod1, size2.constant, mod2)
    ELSE "Ok"

RECURSIVE validate_type_equivalent(_, _, _, _)
RECURSIVE validate_members(_, _, _, _, _)

validate_members_shallow(members1, mod1, members2, mod2, k) ==
    IF \E j \in k..Len(members1) :
           \/ members1[j].binding # members2[j].binding
           \/ members1[j].name # members2[j].name
           \/ members1[j].offset # members2[j].offset
    THEN "TypeStructureMismatch"
    ELSE "Ok"

\* the loop of validate_type_equivalent over the zipped members of two
\* structs, from position k on
validate_members(members1, mod1, members2, mod2, k) ==
    IF k > Len(members1) THEN "Ok"
    ELSE LET m1 == members1[k]
             m2 == members2[k]
         IN  IF m1.binding # m2.binding \/ m1.name # m2.name \/ m1.offset # m2.offset
             THEN "TypeStructureMismatch"
             ELSE LET r == validate_type_equivalent(m1.ty, mod1, m2.ty, mod2)
                  IN  IF r # "Ok" THEN r
                      ELSE validate_members(members1, mod1, members2, mod2, k + 1)

\* validate_type_equivalent(ty1, mod1, ty2, mod2): Ok or the TypeEquivalenceError.
\* The modules hold no pointer types, so canonical_form changes nothing.
validate_type_equivalent(ty1, mod1, ty2, mod2) ==
    LET type1 == mod1.types[ty1]
        type2 == mod2.types[ty2]
        ti1 == type1.inner
        ti2 == type2.inner
    IN  IF type1.name # type2.name THEN "TypeNameMismatch"
        ELSE IF ti1.kind = "Scalar"
        THEN (IF ti1 # ti2 THEN "TypeStructureMismatch" ELSE "Ok")
        ELSE IF ti1.kind = "Array"
        THEN IF ti2.kind # "Array" THEN "TypeStructureMismatch"
             ELSE IF ti1.stride # ti2.stride THEN "TypeStructureMismatch"
             ELSE LET r == validate_array_size_equivalent(ti1.size, mod1, ti2.size, mod2)
                  IN  IF r # "Ok" THEN r
                      ELSE validate_type_equivalent(ti1.base, mod1, ti2.base, mod2)
        ELSE IF ti1.kind = "BindingArray"
        THEN IF ti2.kind # "BindingArray" THEN "TypeStructureMismatch"
             ELSE LET r == validate_array_size_equivalent(ti1.size, mod1, ti2.size, mod2)
                  IN  IF r # "Ok" THEN r
                      ELSE validate_type_equivalent(ti1.base, mod1, ti2.base, mod2)
        ELSE IF ti2.kind # "Struct" THEN "TypeStructureMismatch"
        ELSE IF ti1.span # ti2.span \/ Len(ti1.members) # Len(ti2.members)
        THEN "TypeStructureMismatch"
        ELSE validate_members(ti1.members, mod1, ti2.members, mod2, 1)

RECURSIVE validate_globals_from(_, _, _)

\* the loop of validate_globals over the header's globals, from position k on
validate_globals_from(header, shdr, k) ==
    IF k > Len(header.global_variables) THEN "Ok"
    ELSE LET global == header.global_variables[k]
             SameSlot(s_global) ==
                 s_global.space = global.space /\ s_global.binding = global.binding
             j == Find(shdr.global_variables, SameSlot)
         IN  IF j = 0 THEN "GlobalNotFound"
             ELSE IF validate_type_equivalent(global.ty, header,
                                              shdr.global_variables[j].ty, shdr) # "Ok"
             THEN "GlobalBadType"
             ELSE validate_globals_from(header, shdr, k + 1)

\* validate_globals(header, shader)
validate_globals(header, shdr) == validate_globals_from(header, shdr, 1)

\* validate_vertex_input(header, shader)
validate_vertex_input(header, shdr) ==
    LET IsVertexEntry(entry_point) ==
            entry_point.name = VERTEX_ENTRYPOINT_NAME /\ entry_point.stage = "Vertex"
        v == Find(shdr.entry_points, IsVertexEntry)
    IN  IF v = 0 THEN "VertexShaderNotFound"
        ELSE IF Len(shdr.entry_points[v].arguments) # 1 THEN "VertexShaderBadArgumentAmount"
        ELSE LET vertex_input == shdr.entry_points[v].arguments[1]
                 vertex_input_type == shdr.types[vertex_input]
                 SameName(ty) == ty.name = vertex_input_type.name
                 header_vertex_input == Find(header.types, SameName)
             IN  IF header_vertex_input = 0 THEN "VertexShaderBadInputTypeName"
                 ELSE IF validate_type_equivalent(header_vertex_input, header,
                                                  vertex_input, shdr) # "Ok"
                 THEN "VertexShaderBadInput"
                 ELSE "Ok"

\* validate_contains_header(header, shader)
validate_contains_header(header, shdr) ==
    IF validate_globals(header, shdr) # "Ok"
    THEN validate_globals(header, shdr)
    ELSE validate_vertex_input(header, shdr)

\* WgpuShader::new up to its validation: the parsed module is checked against
\* the header of the context
NewShader ==
    /\ created = "None"
    /\ created' = validate_contains_header(shader_header, shader)
    /\ UNCHANGED <<shader_header, shader, paramsResult, paramsTy>>
    /\ UNCHANGED <<controlVars, threadVars, dropped, chromiumVars, listenerVars, errorVars, unitVars>>

IsUserBuffer_anyBinding(global) == global.binding # NoBinding

\* the test of validate_params: the global is bound at the user-defined
\* buffer's group and binding
IsUserBuffer(global) ==
    global.binding = ResourceBinding(USER_DEFINED_BUFFER_GROUP, USER_DEFINED_BUFFER_BINDING)

\* WgpuShader::validate_params(params) on a created shader; matches: whether
\* validate_params(params, ty, shader) accepts the parameters for the type
ValidateParams(matches) ==
    /\ created = "Ok"
    /\ paramsResult = "None"
    /\ LET g == Find(shader.global_variables, IsUserBuffer)
       IN  IF g = 0
           THEN /\ paramsResult' = "NoBindingInShader"
                /\ UNCHANGED paramsTy
           ELSE /\ paramsTy' = shader.global_variables[g].ty
                /\ paramsResult' = IF matches THEN "Ok" ELSE "ParametersError"
    /\ UNCHANGED <<shader_header, shader, created>>
    /\ UNCHANGED <<controlVars, threadVars, dropped, chromiumVars, listenerVars, errorVars, unitVars>>

\* the type arena of the header: the struct of the vertex input, the struct
\* of the common parameters and the scalars they are made of
HeaderTypes ==
    <<ScalarType("F32"),
      ScalarType("U32"),
      StructType("VertexInput", <<StructMember("position", 1, Location(0), 0)>>, 4),
      StructType("CommonShaderParameters", <<StructMember("time", 1, NoBinding, 0)>>, 4)>>

\* the same types with the vertex input's member at another location
TypesOtherLocation ==
    <<ScalarType("F32"),
      ScalarType("U32"),
      StructType("VertexInput", <<StructMember("position", 1, Location(1), 0)>>, 4),
      StructType("CommonShaderParameters", <<StructMember("time", 1, NoBinding, 0)>>, 4)>>

\* the same types with the two scalars declared in the other order
TypesOtherOrder ==
    <<ScalarType("U32"),
      ScalarType("F32"),
      StructType("VertexInput", <<StructMember("position", 2, Location(0), 0)>>, 4),
      StructType("CommonShaderParameters", <<StructMember("time", 2, NoBinding, 0)>>, 4)>>

\* global variables of headers: the common parameters, the textures and a
\* private variable
HeaderGlobals ==
    {<<>>,
     <<GlobalVariable("PushConstant", NoBinding, 4)>>,
     <<GlobalVariable("Handle", ResourceBinding(0, 0), 1)>>,
     <<GlobalVariable("PushConstant", NoBinding, 4),
       GlobalVariable("Handle", ResourceBinding(0, 0), 1)>>,
     <<GlobalVariable("Private", NoBinding, 2)>>}

Headers == {Module(HeaderTypes, <<>>, g, <<>>) : g \in HeaderGlobals}

\* global variables of shaders
ShaderGlobalVariables ==
    {GlobalVariable("PushConstant", NoBinding, 4),
     GlobalVariable("Handle", ResourceBinding(0, 0), 1),
     GlobalVariable("Handle", ResourceBinding(0, 0), 2),
     GlobalVariable("Handle", ResourceBinding(0, 1), 1),
     GlobalVariable("Uniform", ResourceBinding(1, 0), 4),
     GlobalVariable("Private", NoBinding, 1),
     GlobalVariable("Private", NoBinding, 2)}

ShaderGlobals ==
    {<<>>} \cup {<<g>> : g \in ShaderGlobalVariables}
    \cup (ShaderGlobalVariables \X ShaderGlobalVariables)

\* entry points of shaders
ShaderEntryPoints ==
    {<<>>,
     <<EntryPoint("vs_main", "Vertex", <<3>>)>>,
     <<EntryPoint("vs_main", "Vertex", <<>>)>>,
     <<EntryPoint("vs_main", "Vertex", <<3, 3>>)>>,
     <<EntryPoint("vs_main", "Vertex", <<4>>)>>,
     <<EntryPoint("vs_main", "Vertex", <<1>>)>>,
     <<EntryPoint("vs_main", "Vertex", <<2>>)>>,
     <<EntryPoint("vs_main", "Fragment", <<3>>)>>,
     <<EntryPoint("main", "Vertex", <<3>>)>>,
     <<EntryPoint("fs_main", "Fragment", <<>>), EntryPoint("vs_main", "Vertex", <<3>>)>>}

Shaders ==
    {Module(t, <<>>, g, e) :
        t \in {HeaderTypes, TypesOtherLocation, TypesOtherOrder},
        g \in ShaderGlobals,
        e \in ShaderEntryPoints}

\* a header and a parsed shader module, WgpuShader::new not yet called
InitShader ==
    /\ PipelineNew
    /\ shader_header \in Headers
    /\ shader \in Shaders
    /\ created = "None"
    /\ paramsResult = "None"
    /\ paramsTy = 0
    /\ NoErrorStack
    /\ NoUnusedNodes
    /\ NoUnits

\* ----------------------------------------------------------------- errors

\* strings are sequences of character codes, which orders them as Rust does
NewLine == <<10>>
CommaSpace == <<44, 32>>

\* the display strings of the errors: "", "a", "ba"
Messages == {<<>>, <<97>>, <<98, 97>>}

\* the source() chains of at most MaxChain errors, each error given by its
\* display string
Chains == UNION {[1..n -> Messages] : n \in 1..MaxChain}

Source_skip(chain, k) == IF k + 2 <= Len(chain) THEN k + 2 ELSE 0

\* err.source() of the k-th error of a chain (0: None)
Source(chain, k) == IF k < Len(chain) THEN k + 1 ELSE 0

\* [String]::join(sep)
RECURSIVE Join(_, _)
Join(strs, sep) ==
    IF strs = <<>> THEN <<>>
    ELSE IF Len(strs) = 1 THEN strs[1]
    ELSE strs[1] \o sep \o Join(Tail(strs), sep)

\* self.map(ToString::to_string).collect(): the display strings of the errors
\* that next() returns from the current one on
RECURSIVE Collect(_, _)
Collect(chain, c) ==
    IF c = 0 THEN <<>> ELSE <<chain[c]>> \o Collect(chain, Source(chain, c))

\* ErrorStack::new(value) for an error with a chain of sources
NewErrorStack ==
    /\ error \in Chains
    /\ stackCur = 1
    /\ yielded = <<>>
    /\ stopped = FALSE
    /\ stackString = [set |-> FALSE, s |-> <<>>]

\* ErrorStack::next
ErrorStackNext ==
    /\ error # <<>>
    /\ ~stackString.set
    /\ IF stackCur # 0
       THEN /\ yielded' = Append(yielded, stackCur)
            /\ stackCur' = Source(error, stackCur)
            /\ UNCHANGED stopped
       ELSE /\ stopped' = TRUE
            /\ UNCHANGED <<stackCur, yielded>>
    /\ UNCHANGED <<error, stackString, unusedVars>>
    /\ UNCHANGED <<controlVars, threadVars, dropped, chromiumVars, listenerVars, shaderVars, unitVars>>

\* ErrorStack::into_string, which consumes the stack
IntoString ==
    /\ error # <<>>
    /\ ~stackString.set
    /\ stackString' = [set |-> TRUE, s |-> Join(Collect(error, stackCur), NewLine)]
    /\ stackCur' = 0
    /\ UNCHANGED <<error, yielded, stopped, unusedVars>>
    /\ UNCHANGED <<controlVars, threadVars, dropped, chromiumVars, listenerVars, shaderVars, unitVars>>

\* the node ids "B", "a", "ab", "b"
NodeIdStrings == {<<66>>, <<97>>, <<97, 98>>, <<98>>}

\* String's Ord: bytewise lexicographic
RECURSIVE LexLess(_, _)
LexLess(a, b) ==
    IF a = <<>> THEN b # <<>>
    ELSE IF b = <<>> THEN FALSE
    ELSE IF a[1] # b[1] THEN a[1] < b[1]
    ELSE LexLess(Tail(a), Tail(b))

RECURSIVE Insert(_, _)
Insert(x, sorted) ==
    IF sorted = <<>> THEN <<x>>
    ELSE IF LexLess(x, sorted[1]) THEN <<x>> \o sorted
    ELSE <<sorted[1]>> \o Insert(x, Tail(sorted))

Sort_unsorted(seq) == seq

\* Vec<String>::sort
RECURSIVE Sort(_)
Sort(seq) == IF seq = <<>> THEN <<>> ELSE Insert(seq[1], Sort(Tail(seq)))

\* the orders a hash set may iterate in
Orders(set) ==
    {o \in [1..Cardinality(set) -> set] : \A j, k \in DOMAIN o : j # k => o[j] # o[k]}

\* "There are unused nodes in the scene definition: "
UnusedNodesPrefix ==
    <<84, 104, 101, 114, 101, 32, 97, 114, 101, 32, 117, 110,
      117, 115, 101, 100, 32, 110, 111, 100, 101, 115, 32, 105,
      110, 32, 116, 104, 101, 32, 115, 99, 101, 110, 101, 32,
      100, 101, 102, 105, 110, 105, 116, 105, 111, 110, 58, 32>>

\* two UnusedNodesError values that hold the same set of node ids
NewUnusedNodesError ==
    /\ unusedNodes \in SUBSET NodeIdStrings
    /\ unusedOrder = [e \in Errors |-> <<>>]
    /\ unusedMessage = [e \in Errors |-> <<>>]

\* <UnusedNodesError as Display>::fmt on the error value e, whose set
\* iterates in the given order
FmtUnusedNodes(e, order) ==
    /\ order \in Orders(unusedNodes)
    /\ unusedOrder' = [unusedOrder EXCEPT ![e] = order]
    /\ unusedMessage' =
           [unusedMessage EXCEPT ![e] = UnusedNodesPrefix \o Join(Sort(order), CommaSpace)]
    /\ UNCHANGED <<unusedNodes, stackVars>>
    /\ UNCHANGED <<controlVars, threadVars, dropped, chromiumVars, listenerVars, shaderVars, unitVars>>

\* an error stack just made for an error with a chain of sources
InitErrorStack == PipelineNew /\ NoShader /\ NewErrorStack /\ NoUnusedNodes /\ NoUnits

\* two errors just made for a set of unused nodes
InitUnusedNodes == PipelineNew /\ NoShader /\ NoErrorStack /\ NewUnusedNodesError /\ NoUnits

\* ------------------------------------------------------- type equivalence

\* the constants array lengths are given by: the signed and the unsigned
\* integers of IntBits bits, a float, and a composite
LengthConstants ==
    {ScalarConstant("Sint", v) : v \in (-(2 ^ (IntBits - 1)))..(2 ^ (IntBits - 1) - 1)}
    \cup {ScalarConstant("Uint", v) : v \in 0..(2 ^ IntBits - 1)}
    \cup {ScalarConstant("Float", 1), CompositeConstant}

\* modules that declare a struct, each with the handle of the struct: the
\* vertex input of the tests, and structs that differ from it in one place
StructCandidates ==
    LET scalars == <<ScalarType("F32"), ScalarType("U32")>>
        pos == StructMember("position", 1, Location(0), 0)
        tex == StructMember("tex_coords", 1, Location(1), 4)
        S(name, members, span) ==
            [mod |-> Module(scalars \o <<StructType(name, members, span)>>, <<>>, <<>>, <<>>),
             ty |-> 3]
        N(name, x, inner) ==
            [mod |-> Module(scalars \o <<StructType("Inner", <<StructMember("x", x, NoBinding, 0)>>, 4),
                                         StructType(name, <<StructMember("inner", inner, NoBinding, 0)>>, 4)>>,
                            <<>>, <<>>, <<>>),
             ty |-> 4]
    IN  {S("VertexInput", <<pos, tex>>, 8),
         S("Other", <<pos, tex>>, 8),
         S("VertexInput", <<pos, tex>>, 16),
         S("VertexInput", <<pos>>, 8),
         S("VertexInput", <<pos, tex, StructMember("extra", 1, Location(2), 8)>>, 8),
         S("VertexInput", <<pos, [tex EXCEPT !.name = "uv"]>>, 8),
         S("VertexInput", <<pos, [tex EXCEPT !.offset = 8]>>, 8),
         S("VertexInput", <<pos, [tex EXCEPT !.binding = Location(2)]>>, 8),
         S("VertexInput", <<pos, [tex EXCEPT !.binding = NoBinding]>>, 8),
         S("VertexInput", <<pos, [tex EXCEPT !.ty = 2]>>, 8),
         S("VertexInput", <<[pos EXCEPT !.ty = 2], tex>>, 8),
         S("VertexInput", <<tex, pos>>, 8),
         [mod |-> Module(<<ScalarType("U32"), ScalarType("F32"),
                           StructType("VertexInput",
                                      <<[pos EXCEPT !.ty = 2], [tex EXCEPT !.ty = 2]>>, 8)>>,
                         <<>>, <<>>, <<>>),
          ty |-> 3],
         N("Outer", 1, 3),
         N("Outer", 2, 3),
         N("Outer", 1, 1)}

\* modules that declare an array or a binding array of a scalar, each with
\* the handle of the array
ArrayCandidates ==
    LET scalars == <<ScalarType("F32"), ScalarType("U32")>>
        A(t, c) == [mod |-> Module(scalars \o <<t>>, c, <<>>, <<>>), ty |-> 3]
    IN  {A(ArrayType(base, Dynamic, stride), <<>>) : base \in {1, 2}, stride \in {4, 8}}
        \cup {A(ArrayType(base, ConstantSize(1), stride), <<c>>) :
                  base \in {1, 2}, stride \in {4, 8}, c \in LengthConstants}
        \cup {A(BindingArrayType(base, Dynamic), <<>>) : base \in {1, 2}}
        \cup {A(BindingArrayType(base, ConstantSize(1)), <<c>>) :
                  base \in {1, 2}, c \in LengthConstants}

\* two types of two modules, validate_type_equivalent not yet called
InitTypes ==
    /\ PipelineNew /\ NoShader /\ NoErrorStack /\ NoUnusedNodes
    /\ \E x, y \in StructCandidates \cup ArrayCandidates :
           typeCheck = [mod1 |-> x.mod, mod2 |-> y.mod, ty1 |-> x.ty, ty2 |-> y.ty,
                        result |-> "None"]
    /\ renderPass = NoRenderPass
    /\ textNode = NoTextNode

\* validate_type_equivalent(ty1, mod1, ty2, mod2)
ValidateTypeEquivalent ==
    /\ typeCheck.ty1 # 0
    /\ typeCheck.result = "None"
    /\ typeCheck' =
           [typeCheck EXCEPT !.result =
                validate_type_equivalent(typeCheck.ty1, typeCheck.mod1,
                                         typeCheck.ty2, typeCheck.mod2)]
    /\ UNCHANGED <<renderPass, textNode>>
    /\ UNCHANGED <<controlVars, threadVars, dropped, chromiumVars, listenerVars, shaderVars, errorVars>>

\* ------------------------------------------------------------ shader render

INPUT_TEXTURES_AMOUNT == 16

\* the sources of a render call, each with a texture state or without: all
\* with, none with, every second one with, all but the first with
InitRenderPass ==
    /\ PipelineNew /\ NoShader /\ NoErrorStack /\ NoUnusedNodes
    /\ typeCheck = NoTypeCheck
    /\ \E n \in 0..MaxRenderSources :
       \E sources \in {[i \in 1..n |-> TRUE], [i \in 1..n |-> FALSE],
                       [i \in 1..n |-> i % 2 = 0], [i \in 1..n |-> i # 1]} :
           renderPass = [sources |-> sources, views |-> <<>>, input_count |-> 0,
                         bound |-> FALSE]
    /\ textNode = NoTextNode

\* WgpuShader::render(params, sources, target, pts, clear_color): the texture
\* views bound at group 0 (i: the texture of source i, 0: the empty texture)
\* and the input_count of the push constant
ShaderRender ==
    /\ ~renderPass.bound
    /\ LET textures == renderPass.sources
           texture_views == [i \in DOMAIN textures |-> IF textures[i] THEN i ELSE 0]
           extended == texture_views
                           \o [i \in 1..(INPUT_TEXTURES_AMOUNT - Len(textures)) |-> 0]
       IN  renderPass' = [renderPass EXCEPT !.views = extended,
                                            !.input_count = Len(renderPass.sources),
                                            !.bound = TRUE]
    /\ UNCHANGED <<typeCheck, textNode>>
    /\ UNCHANGED <<controlVars, threadVars, dropped, chromiumVars, listenerVars, shaderVars, errorVars>>

\* ------------------------------------------------------------ text renderer

\* the resolutions layout_text computes for a text
TextResolutions == {<<1, 1>>, <<2, 1>>}

\* the sizes of the textures handed to render (<<0, 0>>: no texture yet)
TargetSizes == {<<0, 0>>, <<1, 1>>, <<2, 1>>, <<2, 2>>}

\* what prepare and the render pass of one call come to
TextOutcomes == {"Ok", "PrepareError", "RenderError"}

\* TextRendererNode::new(ctx, text_spec) and the textures of the nodes
InitText ==
    /\ PipelineNew /\ NoShader /\ NoErrorStack /\ NoUnusedNodes
    /\ typeCheck = NoTypeCheck
    /\ renderPass = NoRenderPass
    /\ \E resolution \in TextResolutions : \E sizes \in [Targets -> TargetSizes] :
           textNode = [NoTextNode EXCEPT
                          !.resolution = resolution,
                          !.was_rendered = FALSE,
                          !.target = [t \in Targets |-> [size |-> sizes[t], drawn |-> 0]]]

\* NodeTexture::ensure_size(ctx, resolution): the texture is kept when it has
\* the size asked for and replaced by a fresh one of that size when not
ensure_size(texture, resolution) ==
    IF texture.size = resolution THEN texture ELSE [size |-> resolution, drawn |-> 0]

AlreadyRendered_never(node) == FALSE

\* if *was_rendered { return; }
AlreadyRendered(node) == node.was_rendered

\* TextRendererNode::render(ctx, target): the lock of was_rendered is held for
\* the whole call, so a call that panics in an unwrap poisons it and every
\* later call panics in lock().unwrap()
TextRender(t, outcome) ==
    /\ textNode.calls < MaxRenders
    /\ LET called == [textNode EXCEPT !.calls = @ + 1]
           target_state == ensure_size(textNode.target[t], textNode.resolution)
       IN  textNode' =
               IF textNode.poisoned
               THEN [called EXCEPT !.last = [target |-> t, outcome |-> "Poisoned"]]
               ELSE IF AlreadyRendered(textNode)
               THEN [called EXCEPT !.last = [target |-> t, outcome |-> "Returned"]]
               ELSE IF outcome = "PrepareError"
               THEN [called EXCEPT !.poisoned = TRUE,
                                   !.last = [target |-> t, outcome |-> "Panicked"]]
               ELSE IF outcome = "RenderError"
               THEN [called EXCEPT !.target[t] = target_state,
                                   !.poisoned = TRUE,
                                   !.last = [target |-> t, outcome |-> "Panicked"]]
               ELSE [called EXCEPT !.target[t] = [target_state EXCEPT !.drawn = @ + 1],
                                   !.submits = @ + 1,
                                   !.was_rendered = TRUE,
                                   !.last = [target |-> t, outcome |-> "Rendered"]]
    /\ UNCHANGED <<typeCheck, renderPass>>
    /\ UNCHANGED <<controlVars, threadVars, dropped, chromiumVars, listenerVars, shaderVars, errorVars>>

\* ------------------------------------------------------- specifications

\* the calls on the pipeline, scenes drawn from Scenes
Next ==
    \/ \E i \in InputIds : RegisterInput(i, PortOf(i))
    \/ \E i \in InputIds : UnregisterInput(i)
    \/ \E o \in OutputIds, w \in Dims, h \in Dims, encOk \in BOOLEAN :
           RegisterOutput(o, w, h, PortOf(o), IpOf(o), encOk)
    \/ \E o \in OutputIds : UnregisterOutput(o)
    \/ \E s \in Scenes : \E ok \in RendererOutcomes(s) : UpdateScene(s, ok)

Spec == Init /\ [][Next]_vars

\* the control thread, the queue and the render threads interleaved, scenes
\* drawn from RenderScenes
NextRender ==
    \/ \E o \in OutputIds, w \in Dims, h \in Dims, encOk \in BOOLEAN :
           RegisterOutput(o, w, h, PortOf(o), IpOf(o), encOk)
    \/ \E o \in OutputIds : UnregisterOutput(o)
    \/ \E s \in RenderScenes : \E ok \in RendererOutcomes(s) : UpdateScene(s, ok)
    \/ Start
    \/ \E t \in Threads : QueueSend(t, MaxPts)
    \/ \E t \in Threads : RenderThread(t)

SpecRender == Init /\ [][NextRender]_vars

\* a pipeline started once, with output o1 registered and a scene routed to it
InitStarted ==
    /\ inputs = {}
    /\ inputPort = <<>>
    /\ queueInputs = {}
    /\ outputs = [o \in {"o1"} |-> NewEncoder(2, 2, PortOf("o1"), IpOf("o1"))]
    /\ scene = SourceScene(<<"o1">>)
    /\ is_started = FALSE
    /\ nThreads = 1
    /\ channel = [t \in Threads |-> <<>>]
    /\ nextPts = 1
    /\ pc = [t \in Threads |-> "recv"]
    /\ cur = [t \in Threads |-> 0]
    /\ pending = [t \in Threads |-> {}]
    /\ lastResult = Result("start", "Started", "None")
    /\ ackedScene = SourceScene(<<"o1">>)
    /\ renderScene = EmptyScene
    /\ lastEvent = "None"
    /\ OtherInit
    /\ NoShader
    /\ NoErrorStack
    /\ NoUnusedNodes
    /\ NoUnits

\* that pipeline: the control thread, the queue and the one render thread
NextStarted ==
    \/ \E o \in OutputIds, w \in Dims, h \in Dims, encOk \in BOOLEAN :
           RegisterOutput(o, w, h, PortOf(o), IpOf(o), encOk)
    \/ \E o \in OutputIds : UnregisterOutput(o)
    \/ \E s \in RenderScenes : \E ok \in RendererOutcomes(s) : UpdateScene(s, ok)
    \/ \E t \in Threads : QueueSend(t, MaxPts)
    \/ \E t \in Threads : RenderThread(t)

SpecStarted == InitStarted /\ [][NextStarted]_vars

\* the queue and the render thread of that pipeline, with a long backlog
NextBacklog ==
    \/ \E t \in Threads : QueueSend(t, MaxBacklogPts)
    \/ \E t \in Threads : RenderThread(t)

SpecBacklog == InitStarted /\ [][NextBacklog]_vars

\* a pipeline started once, with weak fairness of its render thread: a
\* thread that can take a step is scheduled
FairSpecBacklog == SpecBacklog /\ \A t \in Threads : WF_vars(RenderThread(t))

\* a started pipeline and a web renderer, both dropped at some moment: the
\* queue, the render thread, the browser controller and the sender thread
NextShutdown ==
    \/ \E t \in Threads : QueueSend(t, MaxPts)
    \/ \E t \in Threads : RenderThread(t)
    \/ \E t \in Threads : IterEnds(t)
    \/ DropPipeline
    \/ BrowserController
    \/ ChromiumSenderThread

SpecShutdown == InitStarted /\ [][NextShutdown]_vars


\* register and unregister requests on the API, ports and addresses drawn
\* from Ports and Ips
NextApi ==
    \/ \E i \in InputIds, port \in Ports : ApiRegisterInput(i, port)
    \/ \E i \in InputIds : UnregisterInput(i)
    \/ \E o \in OutputIds, w \in Dims, h \in Dims, port \in Ports, ip \in Ips, encOk \in BOOLEAN :
           ApiRegisterOutput(o, w, h, port, ip, encOk)
    \/ \E o \in OutputIds : UnregisterOutput(o)

SpecApi == Init /\ [][NextApi]_vars

\* wait_for_next_frame queries on registered inputs, the frames that arrive
\* for them and the requesters of the queries
NextListeners ==
    \/ \E i \in InputIds : RegisterInput(i, PortOf(i))
    \/ \E q \in QueryIds, i \in InputIds : WaitForNextFrame(q, i)
    \/ \E i \in InputIds : FrameArrives(i)
    \/ \E q \in QueryIds : CallListener(q)
    \/ \E q \in QueryIds : RequesterReceives(q)
    \/ \E q \in QueryIds : RequesterGivesUp(q)

SpecListeners == Init /\ [][NextListeners]_vars

\* the creation of a shader from a parsed module and the validation of
\* parameters for it
NextShader ==
    \/ NewShader
    \/ \E matches \in BOOLEAN : ValidateParams(matches)

SpecShader == InitShader /\ [][NextShader]_vars

\* the walk of an error stack
NextErrorStack == ErrorStackNext \/ IntoString

SpecErrorStack == InitErrorStack /\ [][NextErrorStack]_vars

\* the formatting of the two errors
NextUnusedNodes ==
    \E e \in Errors : \E order \in Orders(unusedNodes) : FmtUnusedNodes(e, order)

SpecUnusedNodes == InitUnusedNodes /\ [][NextUnusedNodes]_vars

\* the equivalence check of two types
SpecTypes == InitTypes /\ [][ValidateTypeEquivalent]_vars

\* a call of WgpuShader::render
SpecRenderPass == InitRenderPass /\ [][ShaderRender]_vars

NextText == \E t \in Targets : \E outcome \in TextOutcomes : TextRender(t, outcome)

\* the render calls made on one text node
SpecText == InitText /\ [][NextText]_vars

\* ------------------------------------------------------------------ claims

\* C1: update_scene installs a scene only if it passed validation against the
\* registered input and output ids: a call whose scene fails validation
\* returns InvalidSpec (the renderer is not asked) and leaves the installed
\* scene as it was, and every change of the installed scene is made by a call
\* that returned Ok with a scene valid at that moment.  (Spec)
UpdateSceneValidated ==
    [][/\ (lastResult'.call = "update_scene" /\ lastResult'.arg = "Invalid")
            => (lastResult'.result = "InvalidSpec" /\ scene' = scene)
       /\ scene' # scene
            => /\ lastResult' = Result("update_scene", "Ok", "Valid")
               /\ Validate(scene', inputs, DOMAIN outputs) = "Ok"]_vars

\* C1 witness: an invalid scene was rejected while another scene is installed
InvalidSceneRejected ==
    /\ lastResult = Result("update_scene", "InvalidSpec", "Invalid")
    /\ scene # EmptyScene

\* whether scene s refers to input i, as an input pad or as a fallback
SceneUsesInput(s, i) == \E k \in DOMAIN s.nodes : i \in RefsOf(s.nodes[k])

\* C2: unregister_input of a registered input that the installed scene still
\* uses fails with StillInUse and changes neither the input map nor the
\* queue's inputs: an input the scene uses stays registered in both.  (Spec)
UsedInputStaysRegistered ==
    [][\A i \in InputIds :
          (i \in inputs /\ SceneUsesInput(scene, i) /\ scene' = scene)
              => (i \in inputs' /\ i \in queueInputs')]_vars

\* C3: every output_id named by an OutputSpec of the installed scene is a
\* registered output, and an unregister_output that found the output in use
\* by the scene left it registered.  (Spec)
SceneOutputsRegistered ==
    \A k \in DOMAIN scene.outputs : scene.outputs[k].output_id \in DOMAIN outputs

\* C3 witness: unregister_output was refused for an output the scene uses
UnregisterOutputRefused ==
    /\ lastResult = Result("unregister_output", "StillInUse", "None")
    /\ scene.outputs # <<>>

\* every registered output has even width and even height
EvenOutputs ==
    \A o \in DOMAIN outputs : outputs[o].width % 2 = 0 /\ outputs[o].height % 2 = 0

\* C4 as stated: every registered output has even width and height, and
\* register_output with an odd width or height returns UnsupportedResolution.
\* (Spec)
OddResolutionUnsupported ==
    /\ EvenOutputs
    /\ (lastResult.call = "register_output" /\ lastResult.arg = "Odd")
           => lastResult.result = "UnsupportedResolution"

\* C4 amended: every registered output has even width and height, and
\* register_output with an odd width or height returns UnsupportedResolution,
\* or AlreadyRegistered when the id is already registered; it inserts nothing
\* either way.  (Spec)
OddResolutionRejected ==
    /\ EvenOutputs
    /\ (lastResult.call = "register_output" /\ lastResult.arg = "Odd")
           => lastResult.result \in {"UnsupportedResolution", "AlreadyRegistered"}

\* C4 witness: an odd resolution was refused while an output is registered
OddResolutionRefused ==
    /\ lastResult = Result("register_output", "UnsupportedResolution", "Odd")
    /\ DOMAIN outputs # {}

\* C5: when the render thread has taken a frame-set and more than 20 sets are
\* pending in the channel, the set is dropped: it is not rendered and nothing
\* is sent to an output; with 20 or fewer pending, the set goes on to be
\* rendered.  (SpecBacklog)
BacklogRule ==
    [][\A t \in Threads :
          (pc[t] = "check" /\ pc'[t] # "check")
              => IF Len(channel[t]) > 20
                 THEN /\ pc'[t] = "recv"
                      /\ cur'[t] = 0
                      /\ outputs' = outputs
                      /\ pending' = pending
                      /\ renderScene' = renderScene
                 ELSE /\ pc'[t] = "render"
                      /\ cur'[t] = cur[t]]_vars

\* C5 witness: a set was dropped after an earlier one was rendered and sent
DroppedAfterSent ==
    /\ lastEvent = "Dropped"
    /\ outputs["o1"].lastPts = 1

\* C6: the queue's send of the next frame-set on a render channel is possible
\* in every state, whatever the render thread is doing and however long the
\* channel is.  (SpecBacklog)
SendNeverBlocks ==
    \A t \in 1..nThreads :
        nextPts <= MaxBacklogPts => ENABLED QueueSend(t, MaxBacklogPts)

\* C6 witness: the queue has sent more than 20 sets while the render thread
\* still holds the first one
SentWhileRenderStalled ==
    /\ pc[1] = "render"
    /\ cur[1] = 1
    /\ Len(channel[1]) > RenderQueueLimit

\* C7: the frames handed to an output's encoder are in strictly increasing
\* pts order.  (SpecRender)
OutputPtsIncreasing ==
    [][\A t \in Threads : \A o \in OutputIds :
          (Dispatch(t, o) /\ o \in DOMAIN outputs) => cur[t] > outputs[o].lastPts]_vars

\* C8: a render that begins after update_scene returned Ok uses the scene of
\* the last update_scene that returned Ok.  (SpecStarted)
RenderUsesAckedScene ==
    [][\A t \in Threads : Render(t, TRUE) => renderScene' = ackedScene]_vars

\* C8 witness: a render used a scene installed after the pipeline was started
RenderedSwappedScene ==
    /\ lastEvent = "Rendered"
    /\ renderScene = SourceScene(<<"o1", "o2">>)

\* C9: at most one render thread is ever spawned.  (SpecRender)
SingleRenderThread == nThreads <= 1

\* C10: a render error drops only the frame-set being rendered: nothing of it
\* is dispatched, the channel keeps its sets, the thread goes back to take
\* the next one, and every set in the channel is eventually taken.
\* (FairSpecBacklog)
RenderErrorIsolated ==
    /\ [][\A t \in Threads :
             Render(t, FALSE)
                 => /\ pc'[t] = "recv"
                    /\ cur'[t] = 0
                    /\ pending'[t] = {}
                    /\ outputs' = outputs
                    /\ channel' = channel]_vars
    /\ \A t \in Threads : (channel[t] # <<>>) ~> (pc[t] = "check")

\* C10 witness: after a render error the thread waits at the channel, which
\* holds later sets
ErrorThenNextSet ==
    /\ lastEvent = "RenderError"
    /\ pc[1] = "recv"
    /\ channel[1] # <<>>

\* C11: once the sending side of its channel is closed, a worker thread that
\* has stopped has taken every message of the channel and stopped by
\* returning from its loop: the render thread and the chromium sender thread.
\* (SpecShutdown)
WorkersDrainThenExit ==
    /\ \A t \in 1..nThreads :
           (dropped /\ pc[t] = "exited") => channel[t] = <<>>
    /\ (sendPc = "dropped" /\ ~ReceiverAlive)
           => (chPc = "exited" /\ message_receiver = <<>>)

\* C12: register_input with an id that is already registered returns
\* AlreadyRegistered, and so does register_output with a registered id; both
\* leave the input map (ids and their receivers), the queue's inputs and the
\* output registry (ids and their encoders) as they were.  (SpecApi)
DuplicateIdRejected ==
    [][/\ \A i \in InputIds, port \in Ports :
              (i \in inputs /\ RegisterInput(i, port))
                  => /\ lastResult'.result = "AlreadyRegistered"
                     /\ UNCHANGED <<inputs, inputPort, queueInputs, outputs>>
       /\ \A o \in OutputIds, w \in Dims, h \in Dims, port \in Ports, ip \in Ips :
              (o \in DOMAIN outputs /\ RegisterOutput(o, w, h, port, ip, TRUE))
                  => /\ lastResult'.result = "AlreadyRegistered"
                     /\ UNCHANGED <<inputs, inputPort, queueInputs, outputs>>]_vars

\* C12 witness: a registration under a registered id was refused while
\* streams of both kinds are registered
DuplicateIdRefused ==
    /\ lastResult.call = "register_input"
    /\ lastResult.result = "AlreadyRegistered"
    /\ inputs # {}
    /\ DOMAIN outputs # {}

InputPortsDistinct ==
    \A x \in inputs, y \in inputs : x # y => inputPort[x] # inputPort[y]

OutputAddrsDistinct ==
    \A x \in DOMAIN outputs, y \in DOMAIN outputs :
        x # y => (outputs[x].port # outputs[y].port \/ outputs[x].ip # outputs[y].ip)

\* C13: no two registered inputs share a port and no two registered outputs
\* share a (port, ip) pair; a register request is rejected with
\* PORT_ALREADY_IN_USE / PORT_AND_IP_ALREADY_IN_USE exactly when its port
\* (port and ip) is held by a registered stream, and then nothing but the
\* response changes; a successful unregister frees the stream's port, and a
\* request for a free port under a free id succeeds.  (SpecApi)
PortsNeverShared ==
    /\ [](InputPortsDistinct /\ OutputAddrsDistinct)
    /\ [][/\ \A i \in InputIds, port \in Ports :
                 ApiRegisterInput(i, port)
                     => /\ PortInUse(port) <=> lastResult'.result = "PORT_ALREADY_IN_USE"
                        /\ PortInUse(port) => UNCHANGED <<inputs, inputPort, queueInputs, outputs>>
                        /\ (~PortInUse(port) /\ i \notin inputs)
                               => (lastResult'.result = "Ok" /\ inputPort'[i] = port)
          /\ \A o \in OutputIds, port \in Ports, ip \in Ips :
                 ApiRegisterOutput(o, 2, 2, port, ip, TRUE)
                     => /\ PortAndIpInUse(port, ip)
                               <=> lastResult'.result = "PORT_AND_IP_ALREADY_IN_USE"
                        /\ PortAndIpInUse(port, ip)
                               => UNCHANGED <<inputs, inputPort, queueInputs, outputs>>
                        /\ (~PortAndIpInUse(port, ip) /\ o \notin DOMAIN outputs)
                               => /\ lastResult'.result = "Ok"
                                  /\ outputs'[o].port = port
                                  /\ outputs'[o].ip = ip
          /\ \A i \in inputs :
                 (UnregisterInput(i) /\ lastResult'.result = "Ok")
                     => \A x \in inputs' : inputPort'[x] # inputPort[i]
          /\ \A o \in DOMAIN outputs :
                 (UnregisterOutput(o) /\ lastResult'.result = "Ok")
                     => \A x \in DOMAIN outputs' :
                            outputs'[x].port # outputs[o].port \/ outputs'[x].ip # outputs[o].ip]_vars

\* C13 witness: with both inputs registered, a request for a port in use was
\* rejected
PortCollisionRejected ==
    /\ lastResult = Result("register_input", "PORT_ALREADY_IN_USE", "None")
    /\ inputs = InputIds
    /\ DOMAIN outputs = OutputIds

\* the Ok messages the listener of query q has sent so far
OkSent(q) == Len(deferred[q].chan) + deferred[q].received

\* C14: the listener of a wait_for_next_frame query fires once: the deferred
\* response gets at most one Ok message, none before a frame for the input
\* has arrived after the subscription; the listener is called only for such a
\* frame, and its call puts exactly one Ok into the response of a requester
\* that still waits.  (SpecListeners)
ListenerFiresOnce ==
    /\ [](\A q \in QueryIds :
              /\ OkSent(q) <= 1
              /\ OkSent(q) >= 1 => deferred[q].frames >= 1
              /\ q \in firing => deferred[q].frames >= 1)
    /\ [][\A q \in QueryIds :
              (CallListener(q) /\ ~deferred[q].dropped)
                  => (deferred'[q].chan = <<"Ok">> /\ deferred'[q].received = 0)]_vars

\* C14 witness: a second frame arrived for the input of a query whose one Ok
\* was received, and no further message came
OneOkAfterTwoFrames ==
    /\ deferred[1].received = 1
    /\ deferred[1].frames = 2
    /\ deferred[1].chan = <<>>
    /\ firing = {}

\* whether type ty1 of mod1 and type ty2 of mod2 are structurally equal
TypeEqual(ty1, mod1, ty2, mod2) == validate_type_equivalent(ty1, mod1, ty2, mod2) = "Ok"

\* every global of the header has a global in the shader with the same
\* address space and binding and an equal type, and the shader's vertex entry
\* point vs_main has exactly one argument, of a type equal to the header's
\* type of that name
ContainsHeader(header, shdr) ==
    /\ \A k \in DOMAIN header.global_variables :
           \E j \in DOMAIN shdr.global_variables :
               /\ shdr.global_variables[j].space = header.global_variables[k].space
               /\ shdr.global_variables[j].binding = header.global_variables[k].binding
               /\ TypeEqual(header.global_variables[k].ty, header,
                            shdr.global_variables[j].ty, shdr)
    /\ \E v \in DOMAIN shdr.entry_points :
           /\ shdr.entry_points[v].name = "vs_main"
           /\ shdr.entry_points[v].stage = "Vertex"
           /\ Len(shdr.entry_points[v].arguments) = 1
           /\ \E h \in DOMAIN header.types :
                  /\ header.types[h].name = shdr.types[shdr.entry_points[v].arguments[1]].name
                  /\ TypeEqual(h, header, shdr.entry_points[v].arguments[1], shdr)

\* C15: validate_contains_header(H, M) returns Ok if and only if every global
\* of H has a global in M with the same address space and (group, binding)
\* and a structurally equal type, and M's vs_main has exactly one argument,
\* of a type equal to the header's.  (SpecShader)
ValidationIffContainsHeader ==
    created # "None" => (created = "Ok" <=> ContainsHeader(shader_header, shader))

\* the vertex entry points named vs_main of a module
VertexEntries(shdr) ==
    {v \in DOMAIN shdr.entry_points :
        shdr.entry_points[v].name = "vs_main" /\ shdr.entry_points[v].stage = "Vertex"}

\* C16: when the globals pass, validation passes only if the shader has a
\* vertex entry point vs_main with exactly one argument whose type is named
\* VertexInput and is equivalent to the header's VertexInput; without vs_main
\* the result is VertexShaderNotFound, with another number of arguments
\* VertexShaderBadArgumentAmount, and an argument of a type not named
\* VertexInput is rejected.  (SpecShader)
VertexInputEnforced ==
    created \notin {"None", "GlobalNotFound", "GlobalBadType"}
        => /\ VertexEntries(shader) = {} => created = "VertexShaderNotFound"
           /\ \A v \in VertexEntries(shader) :
                  (v = Min(VertexEntries(shader)) /\ Len(shader.entry_points[v].arguments) # 1)
                      => created = "VertexShaderBadArgumentAmount"
           /\ created = "Ok"
                  => \E v \in VertexEntries(shader) :
                         /\ Len(shader.entry_points[v].arguments) = 1
                         /\ shader.types[shader.entry_points[v].arguments[1]].name = "VertexInput"
                         /\ \E h \in DOMAIN shader_header.types :
                                /\ shader_header.types[h].name = "VertexInput"
                                /\ TypeEqual(h, shader_header,
                                             shader.entry_points[v].arguments[1], shader)

\* whether a module has a global variable bound at group 1, binding 0
HasUserBinding(shdr) ==
    \E g \in DOMAIN shdr.global_variables : shdr.global_variables[g].binding = <<1, 0>>

\* C17: validate_params returns NoBindingInShader exactly when the shader
\* module has no global variable bound at (group 1, binding 0), and checks
\* the parameters against a type, that of such a global, only when there is
\* one.  (SpecShader)
NoBindingRejected ==
    paramsResult # "None"
        => /\ paramsResult = "NoBindingInShader" <=> ~HasUserBinding(shader)
           /\ paramsTy # 0 <=> HasUserBinding(shader)
           /\ paramsTy # 0
                  => \E g \in DOMAIN shader.global_variables :
                         /\ shader.global_variables[g].binding = <<1, 0>>
                         /\ shader.global_variables[g].ty = paramsTy

\* C17 witness: parameters were refused for a shader that has globals, none
\* of them at (group 1, binding 0)
ParamsRefusedNoBinding ==
    /\ paramsResult = "NoBindingInShader"
    /\ Len(shader.global_variables) = 2
    /\ paramsTy = 0

\* the position in a joined string before its k-th part
RECURSIVE Offset(_, _, _)
Offset(parts, k, sepLen) ==
    IF k = 1 THEN 0 ELSE Offset(parts, k - 1, sepLen) + Len(parts[k - 1]) + sepLen

\* s is the parts in order, with sep between two neighbours and nowhere else
IsJoined(s, parts, sep) ==
    IF parts = <<>> THEN s = <<>>
    ELSE /\ Len(s) = Offset(parts, Len(parts), Len(sep)) + Len(parts[Len(parts)])
         /\ \A k \in DOMAIN parts :
                SubSeq(s, Offset(parts, k, Len(sep)) + 1,
                       Offset(parts, k, Len(sep)) + Len(parts[k])) = parts[k]
         /\ \A k \in 1..(Len(parts) - 1) :
                SubSeq(s, Offset(parts, k, Len(sep)) + Len(parts[k]) + 1,
                       Offset(parts, k + 1, Len(sep))) = sep

\* C18: for an error with the source() chain e0 -> ... -> en, ErrorStack
\* yields e0, e1, ..., en in that order and then None, and into_string is
\* the display strings of e0..en joined by newlines, n+1 entries with no
\* trailing newline.  (SpecErrorStack)
ErrorStackWalksChain ==
    /\ yielded = [k \in 1..Len(yielded) |-> k]
    /\ Len(yielded) <= Len(error)
    /\ stopped => yielded = [k \in 1..Len(error) |-> k]
    /\ ~stackString.set
           => /\ stackCur # 0 => stackCur = Len(yielded) + 1
              /\ stackCur = 0 => Len(yielded) = Len(error)
    /\ (stackString.set /\ yielded = <<>>) => IsJoined(stackString.s, error, NewLine)

\* C18 witness: into_string was called on the stack of an error with two
\* sources
ThreeErrorsJoined ==
    /\ stackString.set
    /\ yielded = <<>>
    /\ Len(error) = 3
    /\ error[1] # error[2]
    /\ error[3] # <<>>

\* C19: the message of an UnusedNodes error is the prefix followed by the
\* node ids of the set in lexicographic order, each once, separated by ", ",
\* whatever order the hash set iterates in: two errors that hold the same
\* set format to the same string.  (SpecUnusedNodes)
UnusedNodesSorted ==
    /\ \A e \in Errors :
           unusedMessage[e] # <<>>
               => \E ids \in Orders(unusedNodes) :
                      /\ \A k \in 1..(Len(ids) - 1) : LexLess(ids[k], ids[k + 1])
                      /\ SubSeq(unusedMessage[e], 1, Len(UnusedNodesPrefix)) = UnusedNodesPrefix
                      /\ IsJoined(SubSeq(unusedMessage[e], Len(UnusedNodesPrefix) + 1,
                                         Len(unusedMessage[e])),
                                  ids, CommaSpace)
    /\ \A e1, e2 \in Errors :
           (unusedMessage[e1] # <<>> /\ unusedMessage[e2] # <<>>)
               => unusedMessage[e1] = unusedMessage[e2]

\* C19 witness: two errors with the same three or more node ids were
\* formatted, their sets iterating in different orders, neither sorted
TwoOrdersFormatted ==
    /\ Cardinality(unusedNodes) >= 3
    /\ unusedMessage[1] # <<>>
    /\ unusedMessage[2] # <<>>
    /\ unusedOrder[1] # unusedOrder[2]
    /\ unusedOrder[1] # Sort(unusedOrder[1])
    /\ unusedOrder[2] # Sort(unusedOrder[2])

\* C20: in every state reached by register_input, unregister_input and
\* update_scene, an input id that the installed scene refers to, in a node's
\* input_pads or as a node's fallback_id, and that is not a node of the
\* scene, is a registered input.  (Spec)
SceneInputsRegistered ==
    \A i \in InputIds :
        (SceneUsesInput(scene, i) /\ i \notin NodeIdsOf(scene)) => i \in inputs

\* C21: in every state reached by register_input, unregister_input and
\* update_scene, no node id of the installed scene is the id of a registered
\* input.  (Spec)
NoNodeInputCollision == NodeIdsOf(scene) \cap inputs = {}

\* a type with the handles of its members and of its base replaced by the
\* types they name
RECURSIVE Expand(_, _)
Expand(mod, ty) ==
    LET t == mod.types[ty]
    IN  IF t.inner.kind = "Struct"
        THEN [name |-> t.name, span |-> t.inner.span,
              members |-> [k \in DOMAIN t.inner.members |->
                               [t.inner.members[k] EXCEPT
                                    !.ty = Expand(mod, t.inner.members[k].ty)]]]
        ELSE IF t.inner.kind \in {"Array", "BindingArray"}
        THEN [t EXCEPT !.inner.base = Expand(mod, t.inner.base)]
        ELSE t

\* the two types under check, and the constants that give their lengths
Type1 == typeCheck.mod1.types[typeCheck.ty1]
Type2 == typeCheck.mod2.types[typeCheck.ty2]
Length1 == typeCheck.mod1.constants[Type1.inner.size.constant]
Length2 == typeCheck.mod2.constants[Type2.inner.size.constant]

\* C22: two struct types are accepted as equivalent only if their names and
\* their spans are equal, they have the same number of members, and at every
\* position the members' names, offsets and bindings are equal and their
\* types are recursively equivalent; a member of another scalar kind or at
\* another @location is rejected.  (SpecTypes)
StructsEquivalentOnlyIfEqual ==
    (/\ typeCheck.result = "Ok"
     /\ Type1.inner.kind = "Struct"
     /\ Type2.inner.kind = "Struct")
        => /\ Type1.name = Type2.name
           /\ Type1.inner.span = Type2.inner.span
           /\ Len(Type1.inner.members) = Len(Type2.inner.members)
           /\ \A k \in DOMAIN Type1.inner.members :
                  LET m1 == Type1.inner.members[k]
                      m2 == Type2.inner.members[k]
                  IN  /\ <<m1.name, m1.offset, m1.binding>> = <<m2.name, m2.offset, m2.binding>>
                      /\ Expand(typeCheck.mod1, m1.ty) = Expand(typeCheck.mod2, m2.ty)

\* C22 witness: two equal structs were accepted whose modules declare the
\* member types under different handles
EqualStructsAccepted ==
    /\ typeCheck.result = "Ok"
    /\ Type1.inner.kind = "Struct"
    /\ Type1.inner.members # Type2.inner.members

\* whether a constant is a scalar integer
IsInteger(c) == c.kind = "Scalar" /\ c.value.kind \in {"Sint", "Uint"}

\* the two types are both arrays or both binding arrays
BothArrays ==
    /\ typeCheck.result # "None"
    /\ Type1.inner.kind \in {"Array", "BindingArray"}
    /\ Type1.inner.kind = Type2.inner.kind

\* the sizes of the two arrays are compared: arrays have equal strides
SizesCompared ==
    /\ BothArrays
    /\ Type1.inner.kind = "Array" => Type1.inner.stride = Type2.inner.stride

SixteenViewsBound ==
    renderPass.bound
        => /\ Len(renderPass.views) = 16
           /\ \A i \in DOMAIN renderPass.views :
                  renderPass.views[i] =
                      IF i <= Len(renderPass.sources) /\ renderPass.sources[i] THEN i ELSE 0
           /\ renderPass.input_count = Len(renderPass.sources)

\* the chromium sender thread takes a message of kind k in this step
Handles(k) ==
    /\ chPc = "recv"
    /\ message_receiver # <<>>
    /\ Head(message_receiver).kind = k
    /\ message_receiver' = Tail(message_receiver)

\* C26: for every UpdateSharedMemory message the chromium sender thread
\* handles (its source index within the node's list, the controller alive),
\* it sends exactly one unmap signal, whether the copy into shared memory
\* succeeded or failed.  (SpecShutdown)
UnmapSignalPerUpdate ==
    [][(/\ Handles("UpdateSharedMemory")
        /\ Head(message_receiver).arg < SharedMemoryLen(Head(message_receiver).node_id)
        /\ sendPc # "dropped")
           => unmap_signals' = unmap_signals + 1]_vars

\* C27: the chromium sender thread never indexes a node's shared-memory list
\* out of bounds, for the messages send_sources produces, also after an
\* EnsureSharedMemory handler returned an error part-way.  (SpecShutdown)
SharedMemoryIndexInBounds == chEvent # "IndexOutOfBounds"

\* C28: firing a wait_for_next_frame listener never panics the thread that
\* fires it, also when the requester has dropped its deferred-response
\* receiver before the frame arrives.  (SpecListeners)
ListenerNeverPanics == ~queuePanicked

\* C29: when a rendered frame-set holds a frame for an output that is no
\* longer registered when it is dispatched, only that frame is skipped: every
\* other frame of the set is sent to its registered output, and the thread
\* goes on, with the rest of the set and then with the next set.
\* (SpecStarted)
MissingOutputSkipped ==
    [][\A t \in Threads, o \in OutputIds :
          Dispatch(t, o)
              => /\ o \notin DOMAIN outputs => (outputs' = outputs /\ lastEvent' = "NoOutput")
                 /\ o \in DOMAIN outputs
                        => (outputs'[o].lastPts = cur[t] /\ lastEvent' = "Sent")
                 /\ pending'[t] = pending[t] \ {o}
                 /\ pc'[t] = IF pending'[t] = {} THEN "recv" ELSE "dispatch"]_vars

\* C29 witness: the frame of an output unregistered during the render was
\* skipped, and the frames of the set still to dispatch have their outputs
SkippedWithFramesPending ==
    \E t \in Threads :
        /\ lastEvent = "NoOutput"
        /\ pc[t] = "dispatch"
        /\ pending[t] # {}
        /\ pending[t] \subseteq DOMAIN outputs
        /\ OutputFrames(renderScene) \ DOMAIN outputs # {}

\* C30: a TextRendererNode submits GPU work at most once: the call that finds
\* was_rendered false and completes draws the text into its target at the
\* node's resolution, submits once and sets was_rendered; was_rendered never
\* returns to false; and every call made after that leaves all targets as
\* they were and submits nothing, whichever target it is given.  (SpecText)
TextRenderedOnce ==
    [][/\ textNode'.submits <= 1
       /\ textNode.was_rendered
              => /\ textNode'.was_rendered
                 /\ textNode'.target = textNode.target
                 /\ textNode'.submits = textNode.submits
       /\ textNode'.submits # textNode.submits
              => /\ ~textNode.was_rendered
                 /\ textNode'.last.outcome = "Rendered"
       /\ (textNode'.calls # textNode.calls /\ textNode'.last.outcome = "Rendered")
              => LET t == textNode'.last.target
                 IN  /\ ~textNode.was_rendered /\ textNode'.was_rendered
                     /\ textNode'.submits = textNode.submits + 1
                     /\ textNode'.target[t].size = textNode.resolution
                     /\ textNode'.target[t].drawn >= 1
                     /\ \A u \in Targets \ {t} :
                            textNode'.target[u] = textNode.target[u]]_vars

\* C30 witness: after the one submission a later call was given another
\* target, of a size other than the node's resolution, and left it as it was
RenderedThenReturned ==
    /\ textNode.was_rendered
    /\ textNode.submits = 1
    /\ textNode.calls >= 2
    /\ textNode.last.outcome = "Returned"
    /\ LET t == textNode.last.target
       IN  /\ textNode.target[t].size # textNode.resolution
           /\ textNode.target[t].drawn = 0
           /\ \E u \in Targets \ {t} : textNode.target[u].drawn = 1

====
